---- MODULE Spec2Model ----
(***************************************************************************)
(* Model of the ignition-nvim language server (lsp/ignition_lsp):          *)
(*   - ProjectScanner.scan with its parent-project chain                   *)
(*     (project_scanner.py), as a step machine: SpecScan;                  *)
(*   - SymbolCache (script_symbols.py): SpecCache;                         *)
(*   - IgnitionLanguageServer and its handlers (server.py), with the       *)
(*     event loop and the executor threads as processes: SpecServer.       *)
(***************************************************************************)
EXTENDS Integers, Sequences, FiniteSets, TLC

\* Python's None where a project directory, a parent name or a timestamp is
\* expected
NoProject == 0
NoParent == 0
NoStamp == 0

(***************************************************************************)
(* Bounds of the model.                                                    *)
(***************************************************************************)
\* embedded scripts found in the one view.json of tree TreeView
MaxEmbedded == 2
\* scans one ProjectScanner runs in a behaviour
MaxScans == 2
\* depth of recursion the interpreter allows _collect_parent_scripts (more
\* than there are project directories)
MaxDepth == 4
\* largest modification time of a script file
MaxMtime == 2
\* ModuleSymbols objects extract_symbols creates in a behaviour
MaxObjects == 3
\* ProjectIndex objects the server's scans create in a behaviour
MaxIndexes == 2
\* ensure_project_index_async coroutines scheduled and not yet run
MaxPending == 1
MaxScripts == 3
\* nesting depth of the JSON documents the walker is given
MaxJsonDepth == 3

(***************************************************************************)
(* The file system: three sibling project directories, named 1, 2, 3 so    *)
(* that sorted(siblings_dir.iterdir()) is the numeric order.               *)
(***************************************************************************)
Projects == {1, 2, 3}

\* a parent name that is neither the name nor the title of any directory
NoSuchProject == 4

\* what project.json of a directory can hold: no file ("absent"), text that is
\* not JSON ("malformed"), or an object with a title and an optional parent name
Absent == [state |-> "absent", title |-> 0, parent |-> NoParent]
Malformed == [state |-> "malformed", title |-> 0, parent |-> NoParent]
ProjectJsons ==
    {Absent, Malformed}
        \cup [state : {"ok"}, title : Projects,
              parent : Projects \cup {NoParent, NoSuchProject}]

\* the titles the project.json files carry: each project titled as its
\* directory, or the titles rotated by one directory
TitleSchemes == {[p \in Projects |-> p], [p \in Projects |-> (p % 3) + 1]}

\* a directory below a resource directory: a sequence of path components, each
\* component given by its hyphen-separated words (<<"a","b">> is "a-b")
DirAB == << <<"a">>, <<"b">> >>
DirAhB == << <<"a", "b">> >>
DirC == << <<"c">> >>
DirRoot == << >>

PyFile(rdir, dir, name) ==
    [rdir |-> rdir, dir |-> dir, name |-> name, kind |-> "py", state |-> "ok",
     found |-> << >>]

\* found: what _find_scripts_in_json returns for the document,
\* (script_key, line_number, context_name) in walk order
JsonFile(rdir, dir, name, state, found) ==
    [rdir |-> rdir, dir |-> dir, name |-> name, kind |-> "json", state |-> state,
     found |-> found]

EmbeddedScripts(n) ==
    [i \in 1..n |-> [key |-> IF i = 1 THEN "script" ELSE "onActionPerformed",
                     line |-> i + 1, context |-> "Button"]]

\* project trees, files in discovery order (ignition/ children sorted by
\* name, then the *.json files of the project root)
TreeEmpty == << >>
TreeLib == << PyFile("script-python", DirAhB, "code.py") >>
TreeView ==
    << JsonFile("perspective-views", DirAB, "view.json", "ok",
                EmbeddedScripts(MaxEmbedded)),
       PyFile("script-python", DirC, "code.py"),
       PyFile("script-python", DirC, "util.py") >>
TreeMixed ==
    << JsonFile("named-query", DirC, "query.json", "too_large", EmbeddedScripts(1)),
       PyFile("script-python", DirAB, "code.py"),
       JsonFile("script-python", DirAB, "resource.json", "ok", EmbeddedScripts(1)),
       PyFile("script-python", DirRoot, "top.py"),
       JsonFile("", DirRoot, "view.json", "ok", EmbeddedScripts(1)) >>
Trees == {TreeEmpty, TreeLib, TreeView, TreeMixed}

VARIABLES
    projJson,       \* project directory -> content of its project.json
    tree,           \* project directory -> its files
    root_path,      \* ProjectScanner.root_path
    spc,            \* position of scan(): idle, collect, merge, stamp, done
    index,          \* the ProjectIndex scan() is building
    visited,        \* the visited set of _collect_parent_scripts
    cur,            \* the scanner whose _collect_parent_scripts is running
    frames,         \* (parent_str, parent_index.scripts) of the open recursion
    parent_chain,   \* what _collect_parent_scripts returned to scan()
    returned,       \* << the index scan() returned >>, << >> while it runs
    scans,          \* scan() calls started
    history,        \* the indexes the scan() calls have returned, in order
    data,           \* the parsed JSON document handed to _find_scripts_in_json
    results,        \* the (script_key, context_name) list _walk_json has filled
    walked,         \* whether _find_scripts_in_json has returned
    \* ---- script files and the SymbolCache
    fileMtime,      \* script file -> os.path.getmtime, NoMtime when it raises OSError
    fileSrc,        \* script file -> the name of its source text (SourceText)
    symbol_cache,   \* SymbolCache._cache: file -> << ModuleSymbols >> or << >>
    nextObj,        \* identity of the next ModuleSymbols object created
    lastGet,        \* file -> the object and mtime of the latest get() of the file,
                    \*   and whether invalidate() or clear() dropped the entry since
    ret,            \* the latest get(): its file, mtime read, object returned, and
                    \*   the lastGet entry it found
    \* ---- the language server
    project_index,  \* server.project_index: NoIndex or the identity of an index
    scan_in_progress, \* server._scan_in_progress
    api_loader,     \* whether server.api_loader was loaded at construction
    sp,             \* thread -> position of its scan_project call, the index its
                    \*   scanner.scan() is building, and the handler that called
    idxPhase,       \* index identity -> how far its scan has built it
    nextIdx,        \* identity of the next ProjectIndex created
    pending,        \* scheduled ensure_project_index_async coroutines not yet run
    entryEpoch,     \* file -> publications of an index before its cache entry
    pubCount,       \* assignments of a scanned index to server.project_index
    latestPublished, \* the index assigned by the latest of them
    lastReq,        \* what the latest request handler saw and answered
    \* ---- completion and definition resolution against a given index
    rIndex,         \* ProjectIndex.scripts of the index handed to the resolver
    rOut            \* the latest resolution: its query and its result

scanVars ==
    << projJson, tree, root_path, spc, index, visited, cur, frames,
       parent_chain, returned, scans, history >>

cacheVars == << fileMtime, fileSrc, symbol_cache, nextObj, lastGet, ret >>

serverVars ==
    << project_index, scan_in_progress, api_loader, sp, idxPhase, nextIdx, pending,
       entryEpoch, pubCount, latestPublished, lastReq >>

resolveVars == << rIndex, rOut >>

walkVars == << data, results, walked >>

vars == << scanVars, cacheVars, serverVars, resolveVars, walkVars >>

(***************************************************************************)
(* project_scanner.py                                                      *)
(***************************************************************************)
SCRIPT_JSON_FILES == {"resource.json", "view.json", "tags.json", "data.json"}

RESOURCE_TYPE_DIRS(name) ==
    CASE name = "script-python" -> "script-python"
      [] name = "named-query" -> "named-query"
      [] name = "perspective-views" -> "perspective-view"
      [] name = "vision-windows" -> "vision-window"
      [] OTHER -> name

\* Path.stem of the file names of the trees
Stem(name) ==
    CASE name = "code.py" -> "code"
      [] name = "util.py" -> "util"
      [] name = "top.py" -> "top"
      [] name = "view.json" -> "view"
      [] name = "resource.json" -> "resource"
      [] name = "query.json" -> "query"
      [] OTHER -> name

RECURSIVE Expand(_)
Expand(parts) ==
    IF parts = << >> THEN << >> ELSE Head(parts) \o Expand(Tail(parts))

\* ComputeModulePath that appends the file's stem to the directory path
ComputeModulePathWithName(dir, name) == Expand(dir) \o << Stem(name) >>

ComputeModulePath(dir, name) ==
    LET expanded == Expand(dir)
    IN IF expanded = << >> THEN << Stem(name) >> ELSE expanded

ScriptLocation(p, f, key, line, mp, rtype, ctx) ==
    [file_path |-> << p, f.rdir, f.dir, f.name >>, script_key |-> key,
     line_number |-> line, module_path |-> mp, resource_type |-> rtype,
     context_name |-> ctx]

ScanJsonFile(p, f, rtype, mp) ==
    IF f.state # "ok" THEN << >>
    ELSE [i \in 1..Len(f.found) |->
            ScriptLocation(p, f, f.found[i].key, f.found[i].line, mp, rtype,
                           f.found[i].context)]

ScanScriptPythonFile(p, f) ==
    IF f.kind = "py"
    THEN << ScriptLocation(p, f, "__file__", 1, ComputeModulePath(f.dir, f.name),
                           "script-python", "") >>
    ELSE IF f.name \in SCRIPT_JSON_FILES
    THEN ScanJsonFile(p, f, "script-python", ComputeModulePath(f.dir, f.name))
    ELSE << >>

ScanResourceFile(p, f) ==
    IF f.kind = "json"
    THEN ScanJsonFile(p, f, RESOURCE_TYPE_DIRS(f.rdir), ComputeModulePath(f.dir, f.name))
    ELSE << >>

ScanFile(p, f) ==
    IF f.rdir = ""
    THEN IF f.kind = "json" /\ f.name \in SCRIPT_JSON_FILES
         THEN ScanJsonFile(p, f, "unknown", << >>)
         ELSE << >>
    ELSE IF f.rdir = "script-python"
    THEN ScanScriptPythonFile(p, f)
    ELSE ScanResourceFile(p, f)

RECURSIVE ScanFiles(_, _)
ScanFiles(p, files) ==
    IF files = << >> THEN << >>
    ELSE ScanFile(p, Head(files)) \o ScanFiles(p, Tail(files))

\* the scripts _scan_project_dir appends to an empty index
ScanProjectDir(p) == ScanFiles(p, tree[p])

\* IsIgnitionProject that takes every directory for a project
IsIgnitionProjectAlways(p) == TRUE

IsIgnitionProject(p) == projJson[p].state # "absent"

\* whether _read_project_json returns the parsed object rather than None
ReadProjectJson(p) == projJson[p].state = "ok"

TitleMatches(p, parent_name) ==
    {c \in Projects : /\ c # p
                      /\ projJson[c].state = "ok"
                      /\ projJson[c].title = parent_name}

Min(S) == CHOOSE x \in S : \A y \in S : x <= y

\* ResolveParentPath whose directory-name fallback accepts the project's own
\* directory
ResolveParentPathOwnDir(p, parent_name) ==
    IF TitleMatches(p, parent_name) # {}
    THEN Min(TitleMatches(p, parent_name))
    ELSE IF parent_name \in Projects
    THEN parent_name
    ELSE NoProject

\* _resolve_parent_path: the first sibling, in sorted order, whose
\* project.json has the title, else the sibling directory of that name
ResolveParentPath(p, parent_name) ==
    IF TitleMatches(p, parent_name) # {}
    THEN Min(TitleMatches(p, parent_name))
    ELSE IF parent_name \in Projects /\ parent_name # p
    THEN parent_name
    ELSE NoProject

\* NextParent without the visited check
NextParentNoCycleCheck(p, seen) ==
    IF ~ReadProjectJson(p) THEN NoProject
    ELSE IF projJson[p].parent = NoParent THEN NoProject
    ELSE ResolveParentPath(p, projJson[p].parent)

\* the parent directory the scanner of p descends into, NoProject when
\* _collect_parent_scripts returns [] at p
NextParent(p, seen) ==
    IF ~ReadProjectJson(p) THEN NoProject
    ELSE IF projJson[p].parent = NoParent THEN NoProject
    ELSE LET parent_path == ResolveParentPath(p, projJson[p].parent)
         IN IF parent_path = NoProject THEN NoProject
            ELSE IF parent_path \in seen THEN NoProject
            ELSE parent_path

Reverse(s) == [i \in 1..Len(s) |-> s[Len(s) + 1 - i]]

ModulePaths(scripts) == {scripts[i].module_path : i \in 1..Len(scripts)}

\* MergeScripts without the override check: every ancestor script is appended
MergeScriptsNoOverride(scripts, child_module_paths, parent_scripts) ==
    [scripts |-> scripts \o parent_scripts,
     seen |-> child_module_paths \cup ModulePaths(parent_scripts)]

\* the inner loop of scan() over one ancestor's scripts
RECURSIVE MergeScripts(_, _, _)
MergeScripts(scripts, child_module_paths, parent_scripts) ==
    IF parent_scripts = << >> THEN [scripts |-> scripts, seen |-> child_module_paths]
    ELSE LET script == Head(parent_scripts)
         IN IF script.module_path \notin child_module_paths
            THEN MergeScripts(Append(scripts, script),
                              child_module_paths \cup {script.module_path},
                              Tail(parent_scripts))
            ELSE MergeScripts(scripts, child_module_paths, Tail(parent_scripts))

\* the outer loop of scan() over parent_chain
RECURSIVE MergeChain(_, _, _)
MergeChain(idx, child_module_paths, chain) ==
    IF chain = << >> THEN idx
    ELSE LET m == MergeScripts(idx.scripts, child_module_paths, Head(chain).scripts)
         IN MergeChain([idx EXCEPT !.scripts = m.scripts,
                                   !.parent_roots = Append(@, Head(chain).root)],
                       m.seen, Tail(chain))

EmptyIndex(p) ==
    [root_path |-> p, scripts |-> << >>, parent_roots |-> << >>, last_updated |-> NoStamp]

\* a parsed JSON value: a string, an object (its members in document order)
\* or an array
Str(text) == [type |-> "str", str |-> text, items |-> << >>]
Entry(key, value) == [key |-> key, value |-> value]
Dict(items) == [type |-> "dict", str |-> "", items |-> items]
List(values) ==
    [type |-> "list", str |-> "", items |-> [i \in 1..Len(values) |-> Entry("", values[i])]]

SCRIPT_KEYS ==
    {"script", "code", "eventScript", "transform", "onActionPerformed", "onChange",
     "onStartup", "onShutdown"}

\* str.strip
Strip(text) == IF text = " " THEN "" ELSE text

IsDict(node) == node.type = "dict"
IsStr(node) == node.type = "str"

\* key in node
HasKey(node, key) == \E i \in 1..Len(node.items) : node.items[i].key = key

\* node.get(key, ""), node[key]
DictGet(node, key) ==
    IF HasKey(node, key)
    THEN node.items[CHOOSE i \in 1..Len(node.items) : node.items[i].key = key].value
    ELSE Str("")

\* the name _walk_json reads off an object: meta.name when meta is an
\* object, else a string under name, else ""
NodeName(node) ==
    IF HasKey(node, "meta") /\ IsDict(DictGet(node, "meta"))
    THEN DictGet(DictGet(node, "meta"), "name").str
    ELSE IF HasKey(node, "name") /\ IsStr(DictGet(node, "name"))
    THEN DictGet(node, "name").str
    ELSE ""

Found(key, context_name) == [key |-> key, context |-> context_name]

\* _walk_json: what it appends to results, in order (the line number, found
\* by a text search of the raw document, is left out)
RECURSIVE WalkJson(_, _)
WalkJson(node, context_name) ==
    IF IsDict(node)
    THEN LET current_context ==
                 IF NodeName(node) # "" THEN NodeName(node) ELSE context_name
             Member(e) ==
                 IF e.key \in SCRIPT_KEYS /\ IsStr(e.value) /\ Strip(e.value.str) # ""
                 THEN << Found(e.key, current_context) >>
                 ELSE IF e.key \in SCRIPT_KEYS /\ IsDict(e.value)
                 THEN IF /\ IsStr(DictGet(e.value, "script"))
                         /\ Strip(DictGet(e.value, "script").str) # ""
                      THEN << Found(e.key, current_context) >>
                      ELSE << >>
                 ELSE WalkJson(e.value, current_context)
             Upto[i \in 0..Len(node.items)] ==
                 IF i = 0 THEN << >> ELSE Upto[i - 1] \o Member(node.items[i])
         IN Upto[Len(node.items)]
    ELSE IF node.type = "list"
    THEN LET Upto[i \in 0..Len(node.items)] ==
                 IF i = 0 THEN << >>
                 ELSE Upto[i - 1] \o WalkJson(node.items[i].value, context_name)
         IN Upto[Len(node.items)]
    ELSE << >>

\* the documents of the model: values nested up to MaxJsonDepth deep, built
\* from blank and non-blank strings, objects with one member under a script
\* key or another key (alone, beside a name, beside a meta.name, or beside a
\* script member) and arrays
DocKeys == {"script", "onActionPerformed", "config"}
RECURSIVE JsonValues(_)
JsonValues(d) ==
    IF d = 0 THEN {Str(""), Str(" "), Str("print(1)")}
    ELSE LET inner == JsonValues(d - 1)
         IN inner
            \cup {Dict(<< Entry(k, v) >>) : k \in DocKeys, v \in inner}
            \cup {Dict(<< Entry("name", Str("Button")), Entry(k, v) >>) :
                      k \in DocKeys, v \in inner}
            \cup {Dict(<< Entry("meta", Dict(<< Entry("name", Str("Label")) >>)),
                          Entry(k, v) >>) : k \in DocKeys, v \in inner}
            \cup {Dict(<< Entry("script", Str("print(1)")), Entry(k, v) >>) :
                      k \in DocKeys \ {"script"}, v \in inner}
            \cup {List(<< v, Str("print(1)") >>) : v \in inner}
Documents == JsonValues(MaxJsonDepth)

\* _find_scripts_in_json(data, text, file_path)
FindScriptsInJson ==
    /\ ~walked
    /\ results' = WalkJson(data, "")
    /\ walked' = TRUE
    /\ UNCHANGED data
    /\ UNCHANGED << scanVars, cacheVars, serverVars, resolveVars >>

\* FreshVisited that keeps the set of the scan before
StaleVisited == visited

\* the visited set scan() hands to _collect_parent_scripts
FreshVisited == {}

\* scan(): the marker check and _scan_project_dir
ScanBegin ==
    /\ spc = "idle"
    /\ scans < MaxScans
    /\ scans' = scans + 1
    /\ visited' = FreshVisited
    /\ frames' = << >>
    /\ parent_chain' = << >>
    /\ cur' = root_path
    /\ IF ~IsIgnitionProject(root_path)
       THEN /\ index' = EmptyIndex(root_path)
            /\ returned' = << EmptyIndex(root_path) >>
            /\ history' = Append(history, EmptyIndex(root_path))
            /\ spc' = "done"
       ELSE /\ index' = [EmptyIndex(root_path) EXCEPT !.scripts = ScanProjectDir(root_path)]
            /\ returned' = << >>
            /\ history' = history
            /\ spc' = "collect"
    /\ UNCHANGED << projJson, tree, root_path >>
    /\ UNCHANGED << cacheVars, serverVars, resolveVars, walkVars >>

\* one call of _collect_parent_scripts that finds an unvisited parent, scans
\* it and recurses into it
CollectDescend ==
    /\ spc = "collect"
    /\ NextParent(cur, visited) # NoProject
    /\ Len(frames) < MaxDepth
    /\ LET parent_str == NextParent(cur, visited)
       IN /\ visited' = visited \cup {parent_str}
          /\ frames' = Append(frames,
                 [root |-> parent_str,
                  scripts |-> IF IsIgnitionProject(parent_str)
                              THEN ScanProjectDir(parent_str) ELSE << >>])
          /\ cur' = parent_str
    /\ UNCHANGED << projJson, tree, root_path, spc, index, parent_chain, returned, scans,
                    history >>
    /\ UNCHANGED << cacheVars, serverVars, resolveVars, walkVars >>

\* the innermost call returns [], and every open call appends its own
\* (parent_str, scripts) on the way out: deepest ancestor first
CollectReturn ==
    /\ spc = "collect"
    /\ NextParent(cur, visited) = NoProject
    /\ parent_chain' = Reverse(frames)
    /\ frames' = << >>
    /\ spc' = "merge"
    /\ UNCHANGED << projJson, tree, root_path, index, visited, cur, returned, scans,
                    history >>
    /\ UNCHANGED << cacheVars, serverVars, resolveVars, walkVars >>

\* step 2 of scan(): merge the ancestors' scripts
Merge ==
    /\ spc = "merge"
    /\ index' = MergeChain(index, ModulePaths(index.scripts), parent_chain)
    /\ spc' = "stamp"
    /\ UNCHANGED << projJson, tree, root_path, visited, cur, frames, parent_chain,
                    returned, scans, history >>
    /\ UNCHANGED << cacheVars, serverVars, resolveVars, walkVars >>

\* index.last_updated = datetime.now(); return index
Stamp ==
    /\ spc = "stamp"
    /\ index' = [index EXCEPT !.last_updated = scans]
    /\ returned' = << index' >>
    /\ history' = Append(history, index')
    /\ spc' = "done"
    /\ UNCHANGED << projJson, tree, root_path, visited, cur, frames, parent_chain, scans >>
    /\ UNCHANGED << cacheVars, serverVars, resolveVars, walkVars >>

\* the caller calls scan() again on the same scanner
ScanAgain ==
    /\ spc = "done"
    /\ scans < MaxScans
    /\ spc' = "idle"
    /\ UNCHANGED << projJson, tree, root_path, index, visited, cur, frames,
                    parent_chain, returned, scans, history >>
    /\ UNCHANGED << cacheVars, serverVars, resolveVars, walkVars >>

(***************************************************************************)
(* script_symbols.py: extract_symbols and SymbolCache                      *)
(***************************************************************************)
Files == {"f1", "f2"}
Sources == {"v1", "bad"}
NoMtime == 0
NoObject == 0

\* the top-level statements ast.parse gives for a source text; deep tells
\* that an expression of the statement (a decorator, a base class, an
\* annotation, an assigned value) is nested deeper than ast.unparse can recurse
FunctionDef(name, deep) ==
    [node |-> "FunctionDef", name |-> name, methods |-> << >>,
     class_variables |-> << >>, deep |-> deep]
ClassDef(name, methods, class_variables) ==
    [node |-> "ClassDef", name |-> name, methods |-> methods,
     class_variables |-> class_variables, deep |-> FALSE]
Assign(name, deep) ==
    [node |-> "Assign", name |-> name, methods |-> << >>,
     class_variables |-> << >>, deep |-> deep]
AnnAssign(name, deep) ==
    [node |-> "AnnAssign", name |-> name, methods |-> << >>,
     class_variables |-> << >>, deep |-> deep]
Import == [node |-> "Import", name |-> "", methods |-> << >>,
           class_variables |-> << >>, deep |-> FALSE]

\* what reading and parsing a source text gives: whether it decodes as
\* UTF-8, the outcome of ast.parse on the text _preprocess_py2 returns, and
\* the top-level statements of the module
Text(decodes, parse, body) == [decodes |-> decodes, parse |-> parse, body |-> body]

\* the source texts of the model
SourceText(src) ==
    CASE src = "v1" ->
           Text(TRUE, "ok",
                << Import,
                   FunctionDef("helper", FALSE),
                   FunctionDef("_helper", FALSE),
                   ClassDef("Handler", << "__init__", "process", "__repr__" >>, << "MAX" >>),
                   ClassDef("_Impl", << "run" >>, << >>),
                   Assign("LIMIT", FALSE),
                   AnnAssign("_INTERNAL", FALSE) >>)
      [] src = "v2" ->
           Text(TRUE, "ok",
                << Assign("text", TRUE),
                   ClassDef("text", << "process", "__repr__" >>, << >>),
                   FunctionDef("process", FALSE),
                   ClassDef("process", << "run" >>, << >>),
                   Assign("Handler", FALSE) >>)
      [] src = "empty" -> Text(TRUE, "ok", << >>)
      [] src = "bad" -> Text(TRUE, "SyntaxError", << >>)
      [] src = "nested" -> Text(TRUE, "RecursionError", << >>)
      [] src = "annotated" ->
           Text(TRUE, "ok", << FunctionDef("helper", FALSE), AnnAssign("LIMIT", TRUE) >>)
      [] src = "decorated" ->
           Text(TRUE, "ok", << FunctionDef("helper", TRUE) >>)
      [] src = "latin1" -> Text(FALSE, "ok", << >>)
      [] OTHER -> Text(TRUE, "ok", << >>)

\* whether turning the statement into a symbol raises: _node_to_str runs
\* inside try/except only for the value of a plain assignment
ConversionRaises(n) == n.deep /\ n.node \in {"FunctionDef", "ClassDef", "AnnAssign"}

\* _extract_class
ScriptClass(n) ==
    [name |-> n.name, methods |-> n.methods, class_variables |-> n.class_variables]

\* the statements of the body that are of one of the given node types
NodesOf(body, types) ==
    LET Test(n) == n.node \in types IN SelectSeq(body, Test)

\* extract_symbols: a new ModuleSymbols object, or an exception (raised);
\* symbols is the name of the text the functions, classes and variables
\* were taken from ("" when there are none)
ModuleSymbols(id, f, symbols, functions, classes, variables, parse_error, mtime, raised) ==
    [id |-> id, file_path |-> f, symbols |-> symbols, functions |-> functions,
     classes |-> classes, variables |-> variables, parse_error |-> parse_error,
     file_mtime |-> mtime, raised |-> raised]

ExtractSymbols(f, id) ==
    LET text == SourceText(fileSrc[f])
        Failure(msg, mtime) ==
            ModuleSymbols(id, f, "", << >>, << >>, << >>, msg, mtime, "")
        Raise(exc) ==
            ModuleSymbols(id, f, "", << >>, << >>, << >>, "", fileMtime[f], exc)
    IN IF fileMtime[f] = NoMtime THEN Failure("File not found", 0)
       ELSE IF ~text.decodes THEN Failure("UnicodeDecodeError", fileMtime[f])
       ELSE IF text.parse = "SyntaxError" THEN Failure("Syntax error", fileMtime[f])
       ELSE IF text.parse # "ok" THEN Raise(text.parse)
       ELSE IF \E i \in 1..Len(text.body) : ConversionRaises(text.body[i])
       THEN Raise("RecursionError")
       ELSE LET functions == NodesOf(text.body, {"FunctionDef"})
                classes == NodesOf(text.body, {"ClassDef"})
                variables == NodesOf(text.body, {"Assign", "AnnAssign"})
            IN ModuleSymbols(id, f, fileSrc[f],
                             [i \in 1..Len(functions) |-> functions[i].name],
                             [i \in 1..Len(classes) |-> ScriptClass(classes[i])],
                             [i \in 1..Len(variables) |-> variables[i].name],
                             "", fileMtime[f], "")

\* CacheHit that never looks at the modification time
CacheHitAnyMtime(cache, f) == cache[f] # << >>

\* the test of SymbolCache.get for returning the cached object
CacheHit(cache, f) ==
    /\ cache[f] # << >>
    /\ cache[f][1].file_mtime = fileMtime[f]

\* CacheGet that stores what it extracted also when the modification time
\* could not be read
CacheGetStoresUnreadable(cache, f, id) ==
    IF CacheHit(cache, f) /\ fileMtime[f] # NoMtime
    THEN [obj |-> cache[f][1], cache |-> cache, extracted |-> FALSE]
    ELSE IF ExtractSymbols(f, id).raised # ""
    THEN [obj |-> ExtractSymbols(f, id), cache |-> cache, extracted |-> TRUE]
    ELSE [obj |-> ExtractSymbols(f, id),
          cache |-> [cache EXCEPT ![f] = << ExtractSymbols(f, id) >>],
          extracted |-> TRUE]

\* SymbolCache.get: the object returned and the cache afterwards; when
\* extract_symbols raises (obj.raised), nothing is stored and the exception
\* leaves get()
CacheGet(cache, f, id) ==
    IF fileMtime[f] = NoMtime
    THEN [obj |-> ExtractSymbols(f, id), cache |-> cache, extracted |-> TRUE]
    ELSE IF CacheHit(cache, f)
    THEN [obj |-> cache[f][1], cache |-> cache, extracted |-> FALSE]
    ELSE IF ExtractSymbols(f, id).raised # ""
    THEN [obj |-> ExtractSymbols(f, id), cache |-> cache, extracted |-> TRUE]
    ELSE [obj |-> ExtractSymbols(f, id),
          cache |-> [cache EXCEPT ![f] = << ExtractSymbols(f, id) >>],
          extracted |-> TRUE]

\* CacheClear that leaves the entries in place
CacheClearNothing(cache) == cache

\* CacheInvalidate that drops every entry
CacheInvalidateAll(cache, f) == [g \in Files |-> << >>]

CacheInvalidate(cache, f) == [cache EXCEPT ![f] = << >>]

CacheClear(cache) == [f \in Files |-> << >>]

\* refreshed: that get() followed a get() of the file at another
\* modification time; dropped: invalidate() of the file or clear() was
\* called since that get()
NoGet == [id |-> NoObject, mtime |-> NoMtime, refreshed |-> FALSE, dropped |-> FALSE]

\* cache.get(f)
Get(f) ==
    /\ nextObj <= MaxObjects
    /\ LET r == CacheGet(symbol_cache, f, nextObj)
       IN /\ symbol_cache' = r.cache
          /\ nextObj' = IF r.extracted THEN nextObj + 1 ELSE nextObj
          /\ ret' = [file |-> f, mtime |-> fileMtime[f], obj |-> r.obj,
                     extracted |-> r.extracted, prev |-> lastGet[f]]
          /\ lastGet' = IF r.obj.raised # "" THEN lastGet
                         ELSE [lastGet EXCEPT ![f] =
                                  [id |-> r.obj.id, mtime |-> fileMtime[f],
                                   dropped |-> FALSE,
                                   refreshed |-> /\ lastGet[f].mtime # NoMtime
                                                 /\ fileMtime[f] # NoMtime
                                                 /\ fileMtime[f] # lastGet[f].mtime]]
    /\ UNCHANGED << fileMtime, fileSrc >>
    /\ UNCHANGED << scanVars, serverVars, resolveVars, walkVars >>

\* cache.invalidate(f)
Invalidate(f) ==
    /\ symbol_cache' = CacheInvalidate(symbol_cache, f)
    /\ lastGet' = [lastGet EXCEPT ![f].dropped = TRUE]
    /\ UNCHANGED << fileMtime, fileSrc, nextObj, ret >>
    /\ UNCHANGED << scanVars, serverVars, resolveVars, walkVars >>

\* cache.clear()
Clear ==
    /\ symbol_cache' = CacheClear(symbol_cache)
    /\ lastGet' = [f \in Files |-> [lastGet[f] EXCEPT !.dropped = TRUE]]
    /\ UNCHANGED << fileMtime, fileSrc, nextObj, ret >>
    /\ UNCHANGED << scanVars, serverVars, resolveVars, walkVars >>

\* the environment writes a script file: new text, and a modification time
\* that may be a new one or, on a coarse clock, the old one
WriteFile(f, m, src) ==
    /\ fileMtime' = [fileMtime EXCEPT ![f] = m]
    /\ fileSrc' = [fileSrc EXCEPT ![f] = src]
    /\ << fileMtime', fileSrc' >> # << fileMtime, fileSrc >>
    /\ UNCHANGED << symbol_cache, nextObj, lastGet, ret >>
    /\ UNCHANGED << scanVars, serverVars, resolveVars, walkVars >>

\* the environment removes a script file: getmtime raises OSError
RemoveFile(f) ==
    /\ fileMtime[f] # NoMtime
    /\ fileMtime' = [fileMtime EXCEPT ![f] = NoMtime]
    /\ UNCHANGED << fileSrc, symbol_cache, nextObj, lastGet, ret >>
    /\ UNCHANGED << scanVars, serverVars, resolveVars, walkVars >>

(***************************************************************************)
(* completion.py, hover.py: what a request handler computes from the       *)
(* index and the cache it is handed                                        *)
(***************************************************************************)
NoIndex == 0

\* the scripts of the indexes the server's scans build: the project's own
\* module, and after the merge the module inherited from its parent
SampleOwn ==
    << [module_path |-> <<"project", "library", "utils">>, file_path |-> "f1",
        script_key |-> "__file__"] >>
SampleParent ==
    << [module_path |-> <<"general", "tools">>, file_path |-> "f2",
        script_key |-> "__file__"] >>

\* ProjectIndex.scripts of index id, as far as its scan has got
IndexScripts(id) ==
    CASE idxPhase[id] = "own" -> SampleOwn
      [] idxPhase[id] \in {"merged", "stamped"} -> SampleOwn \o SampleParent
      [] OTHER -> << >>

\* the text before the cursor that get_completion_context returns: its
\* dot-separated segments and whether it ends in a dot
Ctx(segs, dot) == [segs |-> segs, dot |-> dot]
Contexts ==
    { Ctx(<< >>, FALSE),
      Ctx(<<"system">>, TRUE),
      Ctx(<<"system", "tag">>, TRUE),
      Ctx(<<"project">>, TRUE),
      Ctx(<<"project", "library", "utils">>, TRUE),
      Ctx(<<"general", "tools">>, TRUE) }

\* the static API registry: module system.tag with one function
RegistryModules == {<<"system", "tag">>}
RegistryFunctions == {<<"system", "tag", "readBlocking">>}

Item(label, origin) == [label |-> label, origin |-> origin]

\* context == name, and context.startswith(name + ".")
CtxIs(ctx, name) == ctx.segs = << name >> /\ ~ctx.dot
CtxStartsWith(ctx, name) ==
    /\ Len(ctx.segs) >= 1
    /\ ctx.segs[1] = name
    /\ (Len(ctx.segs) >= 2 \/ ctx.dot)
DotCount(ctx) ==
    IF ctx.segs = << >> THEN 0 ELSE Len(ctx.segs) - 1 + (IF ctx.dot THEN 1 ELSE 0)

IsSeqPrefix(a, b) == Len(a) <= Len(b) /\ SubSeq(b, 1, Len(a)) = a

\* the characters of the path segments and partial names of the model
Chars(s) ==
    CASE s = "project" -> << "p", "r", "o", "j", "e", "c", "t" >>
      [] s = "library" -> << "l", "i", "b", "r", "a", "r", "y" >>
      [] s = "libraryold" -> << "l", "i", "b", "r", "a", "r", "y", "o", "l", "d" >>
      [] s = "utils" -> << "u", "t", "i", "l", "s" >>
      [] s = "utils2" -> << "u", "t", "i", "l", "s", "2" >>
      [] s = "config" -> << "c", "o", "n", "f", "i", "g" >>
      [] s = "misc" -> << "m", "i", "s", "c" >>
      [] s = "general" -> << "g", "e", "n", "e", "r", "a", "l" >>
      [] s = "tools" -> << "t", "o", "o", "l", "s" >>
      [] s = "shared" -> << "s", "h", "a", "r", "e", "d" >>
      [] s = "system" -> << "s", "y", "s", "t", "e", "m" >>
      [] s = "tag" -> << "t", "a", "g" >>
      [] s = "li" -> << "l", "i" >>
      [] s = "U" -> << "U" >>
      [] s = "text" -> << "t", "e", "x", "t" >>
      [] s = "math" -> << "m", "a", "t", "h" >>
      [] s = "readBlocking" -> << "r", "e", "a", "d", "B", "l", "o", "c", "k", "i", "n", "g" >>
      [] s = "helper" -> << "h", "e", "l", "p", "e", "r" >>
      [] s = "_helper" -> << "_", "h", "e", "l", "p", "e", "r" >>
      [] s = "Handler" -> << "H", "a", "n", "d", "l", "e", "r" >>
      [] s = "_Impl" -> << "_", "I", "m", "p", "l" >>
      [] s = "LIMIT" -> << "L", "I", "M", "I", "T" >>
      [] s = "_INTERNAL" -> << "_", "I", "N", "T", "E", "R", "N", "A", "L" >>
      [] s = "MAX" -> << "M", "A", "X" >>
      [] s = "__init__" -> << "_", "_", "i", "n", "i", "t", "_", "_" >>
      [] s = "__repr__" -> << "_", "_", "r", "e", "p", "r", "_", "_" >>
      [] s = "process" -> << "p", "r", "o", "c", "e", "s", "s" >>
      [] s = "run" -> << "r", "u", "n" >>
      [] s = "missing" -> << "m", "i", "s", "s", "i", "n", "g" >>
      [] s = "h" -> << "h" >>
      [] s = "pro" -> << "p", "r", "o" >>
      [] s = "_" -> << "_" >>
      [] s = "__" -> << "_", "_" >>
      [] OTHER -> << >>

\* str.lower, on characters
LowerChar(c) ==
    CASE c = "U" -> "u" [] c = "H" -> "h" [] c = "I" -> "i" [] c = "L" -> "l"
      [] c = "M" -> "m" [] c = "T" -> "t" [] c = "N" -> "n" [] c = "E" -> "e"
      [] c = "R" -> "r" [] c = "A" -> "a" [] c = "X" -> "x" [] OTHER -> c
Lower(cs) == [i \in 1..Len(cs) |-> LowerChar(cs[i])]

\* a.startswith(b) for two names
StrStartsWith(a, b) == IsSeqPrefix(Chars(b), Chars(a))

\* a.lower().startswith(b.lower())
StrStartsWithNoCase(a, b) == IsSeqPrefix(Lower(Chars(b)), Lower(Chars(a)))

\* path.startswith(prefix) for two dotted paths given by their segments: the
\* segments before the last one of prefix are equal, and the segment of path
\* at that place starts with the characters of the last one
PathStartsWith(path, prefix) ==
    \/ prefix = << >>
    \/ /\ Len(path) >= Len(prefix)
       /\ SubSeq(path, 1, Len(prefix) - 1) = SubSeq(prefix, 1, Len(prefix) - 1)
       /\ StrStartsWith(path[Len(prefix)], prefix[Len(prefix)])

GetProjectPackages(scripts) ==
    {scripts[i].module_path[1] : i \in {j \in 1..Len(scripts) : scripts[j].module_path # << >>}}

GetTopLevelCompletions(idx) ==
    {Item("system", "static"), Item("shared", "static")}
        \cup (IF idx # NoIndex
              THEN {Item(pkg, "project") :
                       pkg \in GetProjectPackages(IndexScripts(idx)) \ {"system", "shared"}}
              ELSE {})

GetSystemModules == {Item(m[2], "registry") : m \in RegistryModules}

GetModuleFunctions(module) ==
    {Item(f[3], "registry") : f \in {g \in RegistryFunctions : SubSeq(g, 1, 2) = module}}

GetFunctionCompletions(prefix) ==
    {Item(f[3], "registry") : f \in {g \in RegistryFunctions : IsSeqPrefix(prefix, g)}}

IsProjectModule(ctx, idx) ==
    IF idx = NoIndex THEN FALSE
    ELSE \/ CtxIs(ctx, "project") \/ CtxStartsWith(ctx, "project")
         \/ CtxIs(ctx, "shared") \/ CtxStartsWith(ctx, "shared")
         \/ (ctx.segs # << >> /\ ctx.segs[1] \in GetProjectPackages(IndexScripts(idx)))

\* the (prefix, partial) split of _get_project_completions
CtxPrefix(ctx) ==
    IF ctx.dot \/ Len(ctx.segs) < 2 THEN ctx.segs ELSE SubSeq(ctx.segs, 1, Len(ctx.segs) - 1)
CtxPartial(ctx) ==
    IF ctx.dot \/ Len(ctx.segs) < 2 THEN "" ELSE ctx.segs[Len(ctx.segs)]

\* ProjectIndex.find_by_module_path: << the first location >> or << >>
FindByModulePath(scripts, mp) ==
    LET hits == {i \in 1..Len(scripts) : scripts[i].module_path = mp}
    IN IF hits = {} THEN << >> ELSE << scripts[Min(hits)] >>

SearchModulePaths(scripts, prefix) ==
    LET Test(loc) == PathStartsWith(loc.module_path, prefix) IN SelectSeq(scripts, Test)

\* the leaf module _get_project_completions reads through the cache for
\* this context: << its location >> or << >>
LeafOf(ctx, scripts) ==
    LET leaf == FindByModulePath(scripts, CtxPrefix(ctx))
        NotSelf(loc) == loc.module_path # CtxPrefix(ctx)
    IN IF /\ leaf # << >>
          /\ leaf[1].script_key = "__file__"
          /\ SelectSeq(SearchModulePaths(scripts, CtxPrefix(ctx)), NotSelf) = << >>
       THEN leaf ELSE << >>

\* the elements of a sequence, as a set
Elements(sq) == {sq[i] : i \in 1..Len(sq)}

\* "if partial and not name.lower().startswith(partial.lower()): continue"
PartialKeeps(name, partial) == partial = "" \/ StrStartsWithNoCase(name, partial)

\* LeafSymbolCompletions that offers every name
LeafSymbolCompletionsAllNames(obj, partial) ==
    IF obj.parse_error # "" THEN {}
    ELSE {Item(n, "project") :
             n \in {x \in Elements(obj.functions) \cup Elements(obj.variables)
                             \cup {c.name : c \in Elements(obj.classes)} :
                        PartialKeeps(x, partial)}}

\* _get_leaf_symbol_completions on the object the cache returned: the
\* functions, classes and variables whose name does not start with "_" and
\* that the partial name keeps
LeafSymbolCompletions(obj, partial) ==
    IF obj.parse_error # "" THEN {}
    ELSE {Item(n, "project") :
             n \in {x \in Elements(obj.functions) \cup Elements(obj.variables)
                             \cup {c.name : c \in Elements(obj.classes)} :
                        ~StrStartsWith(x, "_") /\ PartialKeeps(x, partial)}}

\* _get_class_member_completions: the methods, but for the dunder methods
\* other than __init__, and the class variables, that the partial name keeps
ClassMemberCompletions(cls, partial) ==
    {Item(n, "member") :
        n \in {x \in Elements(cls.methods) :
                  /\ ~(StrStartsWith(x, "__") /\ x # "__init__")
                  /\ PartialKeeps(x, partial)}
             \cup {x \in Elements(cls.class_variables) : PartialKeeps(x, partial)}}

\* the first class of the module with this name: << the class >> or << >>
ClassNamed(obj, name) ==
    LET hits == {i \in 1..Len(obj.classes) : obj.classes[i].name = name}
    IN IF hits = {} THEN << >> ELSE << obj.classes[Min(hits)] >>

\* the package branch of _get_project_completions: the next segments
PackageCompletions(ctx, scripts) ==
    LET prefix == CtxPrefix(ctx)
        matching == SearchModulePaths(scripts, prefix)
        segs == {matching[i].module_path[Len(prefix) + 1] :
                    i \in {j \in 1..Len(matching) : Len(matching[j].module_path) > Len(prefix)}}
    IN {Item(seg, "project") :
           seg \in {x \in segs : CtxPartial(ctx) = "" \/ StrStartsWithNoCase(x, CtxPartial(ctx))}}

\* the class-member branch of _get_project_completions: << the location >> of
\* the standalone module that the prefix without its last segment names
ClassModuleOf(ctx, scripts) ==
    LET prefix == CtxPrefix(ctx)
        leaf == IF Len(prefix) < 2 THEN << >>
                ELSE FindByModulePath(scripts, SubSeq(prefix, 1, Len(prefix) - 1))
    IN IF leaf # << >> /\ leaf[1].script_key = "__file__" THEN leaf ELSE << >>

\* _get_project_completions: the items, the cache afterwards, whether
\* symbols were extracted, the files whose cache entry was written, and the
\* exception that left symbol_cache.get ("" when none did)
ProjectCompletions(ctx, scripts, cache, id) ==
    IF LeafOf(ctx, scripts) # << >>
    THEN LET f == LeafOf(ctx, scripts)[1].file_path
             r == CacheGet(cache, f, id)
         IN [items |-> IF r.obj.raised # "" THEN {}
                       ELSE LeafSymbolCompletions(r.obj, CtxPartial(ctx)),
             cache |-> r.cache, extracted |-> r.extracted,
             populated |-> IF r.cache # cache THEN {f} ELSE {},
             raised |-> r.obj.raised]
    ELSE IF ClassModuleOf(ctx, scripts) # << >>
    THEN LET f == ClassModuleOf(ctx, scripts)[1].file_path
             r == CacheGet(cache, f, id)
             cls == ClassNamed(r.obj, CtxPrefix(ctx)[Len(CtxPrefix(ctx))])
         IN [items |-> IF r.obj.raised # "" THEN {}
                       ELSE IF cls # << >>
                       THEN ClassMemberCompletions(cls[1], CtxPartial(ctx))
                       ELSE PackageCompletions(ctx, scripts),
             cache |-> r.cache, extracted |-> r.extracted,
             populated |-> IF r.cache # cache THEN {f} ELSE {},
             raised |-> r.obj.raised]
    ELSE [items |-> PackageCompletions(ctx, scripts), cache |-> cache,
          extracted |-> FALSE, populated |-> {}, raised |-> ""]

\* get_completions up to the project branch: the items that need no cache
StaticCompletions(ctx, idx) ==
    IF ctx.segs = << >> THEN GetTopLevelCompletions(idx)
    ELSE IF CtxIs(ctx, "system") \/ ctx = Ctx(<<"system">>, TRUE) THEN GetSystemModules
    ELSE IF CtxStartsWith(ctx, "system") /\ ctx.dot THEN GetModuleFunctions(ctx.segs)
    ELSE IF CtxStartsWith(ctx, "system") /\ DotCount(ctx) = 1
    THEN IF GetModuleFunctions(ctx.segs) # {} THEN GetModuleFunctions(ctx.segs)
         ELSE {it \in GetSystemModules : CtxPartial(ctx) \in {"", it.label}}
    ELSE IF CtxStartsWith(ctx, "system") THEN GetFunctionCompletions(ctx.segs)
    ELSE {}

\* whether get_completions reaches its project branch
ProjectBranch(ctx, idx) ==
    /\ ctx.segs # << >>
    /\ ~CtxIs(ctx, "system")
    /\ ~CtxStartsWith(ctx, "system")
    /\ IsProjectModule(ctx, idx)

\* GetAnswer that serves nothing until an index exists
GetAnswerNeedsIndex(ctx, idx, cache, id) ==
    [items |-> IF idx = NoIndex THEN {} ELSE StaticCompletions(ctx, idx),
     cache |-> cache, extracted |-> FALSE, populated |-> {}, raised |-> ""]

\* server.completion: the items returned, and the cache afterwards
GetAnswer(ctx, idx, cache, id) ==
    IF ~api_loader
    THEN [items |-> {Item("system", "static")}, cache |-> cache, extracted |-> FALSE,
          populated |-> {}, raised |-> ""]
    ELSE IF ~ProjectBranch(ctx, idx)
    THEN [items |-> StaticCompletions(ctx, idx), cache |-> cache, extracted |-> FALSE,
          populated |-> {}, raised |-> ""]
    ELSE ProjectCompletions(ctx, IndexScripts(idx), cache, id)

(***************************************************************************)
(* completion.py, definition.py: resolution against a given ProjectIndex   *)
(***************************************************************************)
Loc(mp, f, key, line) ==
    [module_path |-> mp, file_path |-> f, script_key |-> key, line_number |-> line]

\* the locations the indexes handed to the resolver are made of
LocationPool ==
    { Loc(<<"project", "library", "utils">>, "f1", "__file__", 1),
      Loc(<<"project", "library", "config">>, "f2", "__file__", 1),
      Loc(<<"project", "library", "utils2">>, "f2", "__file__", 1),
      Loc(<<"project", "libraryold", "misc">>, "f2", "__file__", 1),
      Loc(<<"project", "library">>, "f2", "script", 3),
      Loc(<<"project", "library", "utils", "text">>, "f1", "__file__", 1),
      Loc(<<"project", "library", "utils", "math">>, "f2", "__file__", 1),
      Loc(<<"system", "tag", "readBlocking">>, "f2", "__file__", 1) }

\* the sequences of at most n different locations of the pool
RECURSIVE IndexesUpTo(_)
IndexesUpTo(n) ==
    IF n = 0 THEN {<< >>}
    ELSE LET shorter == IndexesUpTo(n - 1)
         IN shorter \cup
            {Append(sq, l) : sq \in {x \in shorter : Len(x) = n - 1},
                             l \in LocationPool}

NoRepeat(sq) == \A i, j \in 1..Len(sq) : i # j => sq[i] # sq[j]

ResolveIndexes == {sq \in IndexesUpTo(MaxScripts) : NoRepeat(sq)}

ResolveContexts ==
    { Ctx(<<"project">>, TRUE),
      Ctx(<<"project", "library">>, TRUE),
      Ctx(<<"project", "library", "utils">>, TRUE),
      Ctx(<<"project", "li">>, FALSE),
      Ctx(<<"project", "library", "U">>, FALSE) }

\* the dotted identifiers under the cursor of a definition request
DefinitionWords ==
    { <<"project", "library", "utils">>,
      <<"project", "library">>,
      <<"project", "li">>,
      <<"system", "tag", "readBlocking">>,
      <<"shared", "misc">>,
      <<"readBlocking">> }

\* an LSP Location: a file and a 0-based line
LspLocation(file, line) == [file |-> file, line |-> line]

\* _script_location_to_lsp
ScriptLocationToLsp(loc) ==
    LspLocation(loc.file_path, IF loc.line_number - 1 > 0 THEN loc.line_number - 1 ELSE 0)

\* ResolveProjectScript that takes the first of several prefix matches
RECURSIVE ResolveProjectScriptGuess(_, _)
ResolveProjectScriptGuess(candidate, scripts) ==
    IF Len(candidate) < 2 THEN << >>
    ELSE IF FindByModulePath(scripts, candidate) # << >>
    THEN << ScriptLocationToLsp(FindByModulePath(scripts, candidate)[1]) >>
    ELSE IF Len(SearchModulePaths(scripts, candidate)) >= 1
    THEN << ScriptLocationToLsp(SearchModulePaths(scripts, candidate)[1]) >>
    ELSE ResolveProjectScriptGuess(SubSeq(candidate, 1, Len(candidate) - 1), scripts)

\* _resolve_project_script: << the Location >> or << >> for None; the loop
\* runs while the candidate has a dot, that is, two segments or more
RECURSIVE ResolveProjectScript(_, _)
ResolveProjectScript(candidate, scripts) ==
    IF Len(candidate) < 2 THEN << >>
    ELSE IF FindByModulePath(scripts, candidate) # << >>
    THEN << ScriptLocationToLsp(FindByModulePath(scripts, candidate)[1]) >>
    ELSE IF Len(SearchModulePaths(scripts, candidate)) = 1
    THEN << ScriptLocationToLsp(SearchModulePaths(scripts, candidate)[1]) >>
    ELSE ResolveProjectScript(SubSeq(candidate, 1, Len(candidate) - 1), scripts)

\* the file of the API database a registry module is loaded from:
\* "system.tag" -> "system_tag.json"
ModuleFilename(module) ==
    IF module = <<"system", "tag">> THEN "system_tag.json" ELSE "system.json"

\* _resolve_api_function: the registry function with this full name, or,
\* for a word without a dot, with this bare name; the Location is the
\* function's entry in the module's JSON file (the line of its "name" key,
\* here the first)
ResolveApiFunction(word) ==
    LET full == {f \in RegistryFunctions : f = word}
        bare == {f \in RegistryFunctions : Len(word) = 1 /\ f[Len(f)] = word[1]}
        hits == IF full # {} THEN full ELSE bare
    IN IF hits = {} THEN << >>
       ELSE LET f == CHOOSE g \in hits : TRUE
            IN << LspLocation(ModuleFilename(SubSeq(f, 1, Len(f) - 1)), 0) >>

\* GetDefinition that asks the project index first
GetDefinitionProjectFirst(word, api, scripts) ==
    IF word = << >> THEN [loc |-> << >>, via |-> "none"]
    ELSE IF ResolveProjectScript(word, scripts) # << >>
    THEN [loc |-> ResolveProjectScript(word, scripts), via |-> "project"]
    ELSE IF api /\ ResolveApiFunction(word) # << >>
    THEN [loc |-> ResolveApiFunction(word), via |-> "registry"]
    ELSE [loc |-> << >>, via |-> "none"]

\* get_definition(document, position, api_loader, project_index): api is
\* whether api_loader is not None; via is the resolver that answered
GetDefinition(word, api, scripts) ==
    IF word = << >> THEN [loc |-> << >>, via |-> "none"]
    ELSE IF api /\ ResolveApiFunction(word) # << >>
    THEN [loc |-> ResolveApiFunction(word), via |-> "registry"]
    ELSE IF ResolveProjectScript(word, scripts) # << >>
    THEN [loc |-> ResolveProjectScript(word, scripts), via |-> "project"]
    ELSE [loc |-> << >>, via |-> "none"]

\* the positional parameters get_definition declares, and the arguments the
\* server's definition handler passes to it
GetDefinitionParams == 4
DefinitionHandlerArgs == 5

\* server.definition: the call of get_definition inside try/except
\* Exception; a call with the wrong number of arguments raises TypeError,
\* which the handler logs, and the handler returns None
HandleDefinition(word, api, scripts) ==
    IF DefinitionHandlerArgs # GetDefinitionParams
    THEN [loc |-> << >>, via |-> "error"]
    ELSE GetDefinition(word, api, scripts)

\* no hover: _get_project_symbol_hover returned None
NoHover == [kind |-> "none", module |-> << >>, name |-> "", member |-> ""]

NoResolution ==
    [kind |-> "none", ctx |-> Ctx(<< >>, FALSE), word |-> << >>, items |-> {},
     loc |-> << >>, read |-> {}, api |-> FALSE, via |-> "none", raised |-> "",
     hover |-> NoHover, file |-> "", obj |-> << >>]

\* a hover text: what it documents
HoverOf(kind, module, name, member) ==
    [kind |-> kind, module |-> module, name |-> name, member |-> member]

\* HoverIn that looks at the variables before the functions and classes
HoverInVariablesFirst(obj, module, remaining) ==
    LET name == remaining[1]
        cls == ClassNamed(obj, name)
    IN IF name \in Elements(obj.variables) THEN HoverOf("variable", module, name, "")
       ELSE IF name \in Elements(obj.functions) THEN HoverOf("function", module, name, "")
       ELSE IF cls # << >>
       THEN IF Len(remaining) > 1 /\ remaining[2] \in Elements(cls[1].methods)
            THEN HoverOf("method", module, name, remaining[2])
            ELSE HoverOf("class", module, name, "")
       ELSE NoHover

\* the body of the loop of _get_project_symbol_hover once the symbols of a
\* module are at hand: the functions, then the classes (a method of the
\* class when a further segment names one, else the class), then the
\* variables
HoverIn(obj, module, remaining) ==
    LET name == remaining[1]
        cls == ClassNamed(obj, name)
    IN IF name \in Elements(obj.functions) THEN HoverOf("function", module, name, "")
       ELSE IF cls # << >>
       THEN IF Len(remaining) > 1 /\ remaining[2] \in Elements(cls[1].methods)
            THEN HoverOf("method", module, name, remaining[2])
            ELSE HoverOf("class", module, name, "")
       ELSE IF name \in Elements(obj.variables) THEN HoverOf("variable", module, name, "")
       ELSE NoHover

\* _get_project_symbol_hover from the prefix of i segments down: the hover,
\* the cache and the next object identity afterwards, and the exception that
\* left symbol_cache.get ("" when none did)
RECURSIVE ProjectSymbolHover(_, _, _, _, _)
ProjectSymbolHover(word, i, scripts, cache, id) ==
    IF i < 1 THEN [hover |-> NoHover, cache |-> cache, id |-> id, raised |-> ""]
    ELSE LET module == SubSeq(word, 1, i)
             loc == FindByModulePath(scripts, module)
         IN IF loc = << >> \/ loc[1].script_key # "__file__"
            THEN ProjectSymbolHover(word, i - 1, scripts, cache, id)
            ELSE LET r == CacheGet(cache, loc[1].file_path, id)
                     nid == IF r.extracted THEN id + 1 ELSE id
                 IN IF r.obj.raised # ""
                    THEN [hover |-> NoHover, cache |-> r.cache, id |-> nid,
                          raised |-> r.obj.raised]
                    ELSE IF r.obj.parse_error # ""
                    THEN ProjectSymbolHover(word, i - 1, scripts, r.cache, nid)
                    ELSE IF HoverIn(r.obj, module, SubSeq(word, i + 1, Len(word))) # NoHover
                    THEN [hover |-> HoverIn(r.obj, module, SubSeq(word, i + 1, Len(word))),
                          cache |-> r.cache, id |-> nid, raised |-> ""]
                    ELSE ProjectSymbolHover(word, i - 1, scripts, r.cache, nid)

\* the indexes, contexts and words of the requests about the symbols of a
\* module
Utils == <<"project", "library", "utils">>
SymbolIndexes ==
    { << Loc(Utils, "f1", "__file__", 1) >>,
      << Loc(Utils, "f1", "__file__", 1),
         Loc(Utils \o <<"text">>, "f2", "__file__", 1) >>,
      << Loc(Utils, "f2", "script", 3), Loc(Utils, "f1", "__file__", 1) >> }
SymbolContexts ==
    { Ctx(Utils, TRUE),
      Ctx(Utils \o <<"h">>, FALSE),
      Ctx(Utils \o <<"Handler">>, TRUE),
      Ctx(Utils \o <<"Handler", "pro">>, FALSE),
      Ctx(Utils \o <<"_Impl">>, TRUE) }
HoverWords ==
    { Utils \o <<"helper">>,
      Utils \o <<"Handler">>,
      Utils \o <<"Handler", "process">>,
      Utils \o <<"Handler", "missing">>,
      Utils \o <<"process">>,
      Utils \o <<"text">>,
      Utils \o <<"text", "process">>,
      Utils \o <<"LIMIT">>,
      Utils }
SymbolSources == {"v1", "v2", "empty", "bad", "nested", "annotated", "decorated", "latin1"}

\* extract_symbols(f)
Extract(f) ==
    /\ nextObj <= MaxObjects
    /\ nextObj' = nextObj + 1
    /\ rOut' = [NoResolution EXCEPT !.kind = "extract", !.file = f,
                                    !.obj = << ExtractSymbols(f, nextObj) >>,
                                    !.raised = ExtractSymbols(f, nextObj).raised]
    /\ UNCHANGED << fileMtime, fileSrc, symbol_cache, lastGet, ret, rIndex >>
    /\ UNCHANGED << scanVars, serverVars, walkVars >>

\* _get_project_symbol_hover(word, project_index, symbol_cache)
Hover(word) ==
    /\ nextObj <= MaxObjects
    /\ LET h == ProjectSymbolHover(word, Len(word) - 1, rIndex, symbol_cache, nextObj)
       IN /\ symbol_cache' = h.cache
          /\ nextObj' = h.id
          /\ rOut' = [NoResolution EXCEPT !.kind = "hover", !.word = word,
                                          !.hover = h.hover, !.raised = h.raised]
    /\ UNCHANGED << fileMtime, fileSrc, lastGet, ret, rIndex >>
    /\ UNCHANGED << scanVars, serverVars, walkVars >>

\* _get_project_completions(context, project_index, symbol_cache)
Complete(ctx) ==
    /\ nextObj <= MaxObjects
    /\ LET a == ProjectCompletions(ctx, rIndex, symbol_cache, nextObj)
       IN /\ symbol_cache' = a.cache
          /\ nextObj' = IF a.extracted THEN nextObj + 1 ELSE nextObj
          /\ rOut' = [NoResolution EXCEPT !.kind = "complete", !.ctx = ctx,
                                          !.items = a.items, !.read = a.populated,
                                          !.raised = a.raised]
    /\ UNCHANGED << fileMtime, fileSrc, lastGet, ret, rIndex >>
    /\ UNCHANGED << scanVars, serverVars, walkVars >>

\* _resolve_project_script(word, project_index)
ResolveProject(word) ==
    /\ rOut' = [NoResolution EXCEPT !.kind = "project_script", !.word = word,
                                    !.loc = ResolveProjectScript(word, rIndex)]
    /\ UNCHANGED rIndex
    /\ UNCHANGED << scanVars, cacheVars, serverVars, walkVars >>

\* get_definition for the word under the cursor, with or without an API
\* registry
Define(word, api) ==
    /\ LET d == GetDefinition(word, api, rIndex)
       IN rOut' = [NoResolution EXCEPT !.kind = "definition", !.word = word,
                                      !.api = api, !.loc = d.loc, !.via = d.via]
    /\ UNCHANGED rIndex
    /\ UNCHANGED << scanVars, cacheVars, serverVars, walkVars >>

\* the server's definition handler, with the index as ls.project_index
DefinitionRequest(word) ==
    /\ LET d == HandleDefinition(word, api_loader, rIndex)
       IN rOut' = [NoResolution EXCEPT !.kind = "handler", !.word = word,
                                      !.api = api_loader, !.loc = d.loc, !.via = d.via]
    /\ UNCHANGED rIndex
    /\ UNCHANGED << scanVars, cacheVars, serverVars, walkVars >>

(***************************************************************************)
(* server.py: IgnitionLanguageServer, its handlers on the event loop and   *)
(* the scan_project calls on executor threads                              *)
(***************************************************************************)
Main == "main"
\* the executor thread ensure_project_index_async hands scan_project to (the
\* flag lets at most one such call be in flight)
Workers == {"w1"}
Threads == Workers \cup {Main}

\* pc: where the thread is in scan_project; idx: the index its scanner.scan()
\* builds; kind: the handler that called it
Off == [pc |-> "off", idx |-> NoIndex, kind |-> "none"]

\* the event loop is between handlers
Idle == sp[Main].pc = "off"

\* cache entries that were populated before the latest publication
StaleEntries ==
    {f \in Files : symbol_cache[f] # << >> /\ entryEpoch[f] < pubCount}

\* did_open: ensure_future(ensure_project_index_async(uri)), then diagnostics
DidOpen ==
    /\ Idle
    /\ pending < MaxPending
    /\ pending' = pending + 1
    /\ UNCHANGED << project_index, scan_in_progress, api_loader, sp, idxPhase, nextIdx,
                    entryEpoch, pubCount, latestPublished, lastReq >>
    /\ UNCHANGED << scanVars, cacheVars, resolveVars, walkVars >>

\* the first test of ensure_project_index_async
EnsureSkips == project_index # NoIndex \/ scan_in_progress

\* ensure_project_index_async up to its await: found is whether
\* _find_project_root finds a root for the uri
EnsureRun(found) ==
    /\ Idle
    /\ pending > 0
    /\ pending' = pending - 1
    /\ IF EnsureSkips \/ ~found
       THEN UNCHANGED << scan_in_progress, sp >>
       ELSE /\ scan_in_progress' = TRUE
            /\ \E w \in Workers :
                  /\ sp[w].pc = "off"
                  /\ sp' = [sp EXCEPT ![w] = [pc |-> "start", idx |-> NoIndex, kind |-> "open"]]
    /\ UNCHANGED << project_index, api_loader, idxPhase, nextIdx, entryEpoch, pubCount,
                    latestPublished, lastReq >>
    /\ UNCHANGED << scanVars, cacheVars, resolveVars, walkVars >>

\* EnsureFinally that resets the flag only when an index is there
EnsureFinallyOnIndex(w) ==
    /\ Idle
    /\ sp[w].pc = "finished"
    /\ scan_in_progress' = (project_index = NoIndex)
    /\ sp' = [sp EXCEPT ![w] = Off]
    /\ UNCHANGED << project_index, api_loader, idxPhase, nextIdx, pending, entryEpoch,
                    pubCount, latestPublished, lastReq >>
    /\ UNCHANGED << scanVars, cacheVars, resolveVars, walkVars >>

\* ensure_project_index_async after its await: the finally block
EnsureFinally(w) ==
    /\ Idle
    /\ sp[w].pc = "finished"
    /\ scan_in_progress' = FALSE
    /\ sp' = [sp EXCEPT ![w] = Off]
    /\ UNCHANGED << project_index, api_loader, idxPhase, nextIdx, pending, entryEpoch,
                    pubCount, latestPublished, lastReq >>
    /\ UNCHANGED << scanVars, cacheVars, resolveVars, walkVars >>

\* scan_project: scanner.is_ignition_project()
SPCheck(t, marker) ==
    /\ sp[t].pc = "start"
    /\ sp' = [sp EXCEPT ![t].pc = IF marker THEN "scan" ELSE "finished"]
    /\ UNCHANGED << project_index, scan_in_progress, api_loader, idxPhase, nextIdx,
                    pending, entryEpoch, pubCount, latestPublished, lastReq >>
    /\ UNCHANGED << scanVars, cacheVars, resolveVars, walkVars >>

\* scanner.scan(): a new ProjectIndex; without the marker file it is returned
\* empty, else the project's own directories are scanned into it
SPScanBegin(t, marker) ==
    /\ sp[t].pc = "scan"
    /\ nextIdx <= MaxIndexes
    /\ nextIdx' = nextIdx + 1
    /\ idxPhase' = [idxPhase EXCEPT ![nextIdx] = IF marker THEN "own" ELSE "empty"]
    /\ sp' = [sp EXCEPT ![t].pc = IF marker THEN "merging" ELSE "returned",
                         ![t].idx = nextIdx]
    /\ UNCHANGED << project_index, scan_in_progress, api_loader, pending, entryEpoch,
                    pubCount, latestPublished, lastReq >>
    /\ UNCHANGED << scanVars, cacheVars, resolveVars, walkVars >>

\* scanner.scan(): the ancestors' scripts are merged in
SPMerge(t) ==
    /\ sp[t].pc = "merging"
    /\ idxPhase' = [idxPhase EXCEPT ![sp[t].idx] = "merged"]
    /\ sp' = [sp EXCEPT ![t].pc = "stamping"]
    /\ UNCHANGED << project_index, scan_in_progress, api_loader, nextIdx, pending,
                    entryEpoch, pubCount, latestPublished, lastReq >>
    /\ UNCHANGED << scanVars, cacheVars, resolveVars, walkVars >>

\* scanner.scan(): last_updated is set and the index returned
SPStamp(t) ==
    /\ sp[t].pc = "stamping"
    /\ idxPhase' = [idxPhase EXCEPT ![sp[t].idx] = "stamped"]
    /\ sp' = [sp EXCEPT ![t].pc = "returned"]
    /\ UNCHANGED << project_index, scan_in_progress, api_loader, nextIdx, pending,
                    entryEpoch, pubCount, latestPublished, lastReq >>
    /\ UNCHANGED << scanVars, cacheVars, resolveVars, walkVars >>

\* scanner.scan() raises (a project.json that is a JSON list, a directory
\* that cannot be listed): the index it was building is dropped
SPRaise(t) ==
    /\ sp[t].pc = "scan"
    /\ sp' = [sp EXCEPT ![t].pc = "failed"]
    /\ UNCHANGED << project_index, scan_in_progress, api_loader, idxPhase, nextIdx,
                    pending, entryEpoch, pubCount, latestPublished, lastReq >>
    /\ UNCHANGED << scanVars, cacheVars, resolveVars, walkVars >>

\* PublishAt that assigns the index while its scan is still merging
PublishAtEarly(t) == sp[t].pc = "stamping"

\* where scan_project assigns self.project_index: scanner.scan() has returned
PublishAt(t) == sp[t].pc = "returned"

\* self.project_index = scanner.scan()
SPAssign(t) ==
    /\ PublishAt(t)
    /\ project_index' = sp[t].idx
    /\ pubCount' = pubCount + 1
    /\ latestPublished' = sp[t].idx
    /\ sp' = [sp EXCEPT ![t].pc = "assigned"]
    /\ UNCHANGED << scan_in_progress, api_loader, idxPhase, nextIdx, pending,
                    entryEpoch, lastReq >>
    /\ UNCHANGED << scanVars, cacheVars, resolveVars, walkVars >>

\* self.symbol_cache.clear()
SPClear(t) ==
    /\ sp[t].pc = "assigned"
    /\ symbol_cache' = CacheClear(symbol_cache)
    /\ sp' = [sp EXCEPT ![t].pc = "cleared"]
    /\ UNCHANGED << project_index, scan_in_progress, api_loader, idxPhase, nextIdx,
                    pending, entryEpoch, pubCount, latestPublished, lastReq >>
    /\ UNCHANGED << fileMtime, fileSrc, nextObj, lastGet, ret >>
    /\ UNCHANGED << scanVars, resolveVars, walkVars >>

\* logger.info(... self.project_index.script_count ...): AttributeError when
\* another thread has reset project_index to None meanwhile
SPLog(t) ==
    /\ sp[t].pc = "cleared"
    /\ sp' = [sp EXCEPT ![t].pc = IF project_index = NoIndex THEN "failed" ELSE "finished"]
    /\ UNCHANGED << project_index, scan_in_progress, api_loader, idxPhase, nextIdx,
                    pending, entryEpoch, pubCount, latestPublished, lastReq >>
    /\ UNCHANGED << scanVars, cacheVars, resolveVars, walkVars >>

\* except Exception: self.project_index = None
SPExcept(t) ==
    /\ sp[t].pc = "failed"
    /\ project_index' = NoIndex
    /\ sp' = [sp EXCEPT ![t].pc = "finished"]
    /\ UNCHANGED << scan_in_progress, api_loader, idxPhase, nextIdx, pending,
                    entryEpoch, pubCount, latestPublished, lastReq >>
    /\ UNCHANGED << scanVars, cacheVars, resolveVars, walkVars >>

SaveKinds == {"py", "structural", "other"}

\* whether did_save calls scan_project
SaveRescans(kind) == kind = "structural" /\ project_index # NoIndex

\* did_save up to the call of scan_project: kind is what the path of the
\* saved document is (a .py file f, one of the four structural names, other)
DidSave(kind, f) ==
    /\ Idle
    /\ symbol_cache' = IF kind = "py" THEN CacheInvalidate(symbol_cache, f) ELSE symbol_cache
    /\ sp' = [sp EXCEPT ![Main] = [pc |-> IF SaveRescans(kind) THEN "start" ELSE "finished",
                                    idx |-> NoIndex,
                                    kind |-> IF kind = "py" THEN f ELSE kind]]
    /\ UNCHANGED << project_index, scan_in_progress, api_loader, idxPhase, nextIdx,
                    pending, entryEpoch, pubCount, latestPublished, lastReq >>
    /\ UNCHANGED << fileMtime, fileSrc, nextObj, lastGet, ret >>
    /\ UNCHANGED << scanVars, resolveVars, walkVars >>

\* did_save after scan_project has returned: diagnostics, and the handler ends
DidSaveEnd ==
    /\ sp[Main].pc = "finished"
    /\ sp' = [sp EXCEPT ![Main] = Off]
    /\ UNCHANGED << project_index, scan_in_progress, api_loader, idxPhase, nextIdx,
                    pending, entryEpoch, pubCount, latestPublished, lastReq >>
    /\ UNCHANGED << scanVars, cacheVars, resolveVars, walkVars >>

\* the completion handler
Completion(ctx) ==
    /\ Idle
    /\ nextObj <= MaxObjects
    /\ LET a == GetAnswer(ctx, project_index, symbol_cache, nextObj)
       IN /\ symbol_cache' = a.cache
          /\ nextObj' = IF a.extracted THEN nextObj + 1 ELSE nextObj
          /\ entryEpoch' = [f \in Files |->
                               IF f \in a.populated THEN pubCount ELSE entryEpoch[f]]
          /\ lastReq' = [kind |-> "completion", ctx |-> ctx, index |-> project_index,
                         items |-> a.items, stale |-> StaleEntries,
                         scanning |-> scan_in_progress]
    /\ UNCHANGED << project_index, scan_in_progress, api_loader, sp, idxPhase, nextIdx,
                    pending, pubCount, latestPublished >>
    /\ UNCHANGED << fileMtime, fileSrc, lastGet, ret >>
    /\ UNCHANGED << scanVars, resolveVars, walkVars >>

\* nothing has been resolved
InitResolver ==
    /\ rIndex = << >>
    /\ rOut = NoResolution

InitServerState ==
    /\ InitResolver
    /\ project_index = NoIndex
    /\ scan_in_progress = FALSE
    /\ api_loader = TRUE
    /\ sp = [t \in Threads |-> Off]
    /\ idxPhase = [i \in 1..MaxIndexes |-> "none"]
    /\ nextIdx = 1
    /\ pending = 0
    /\ entryEpoch = [f \in Files |-> 0]
    /\ pubCount = 0
    /\ latestPublished = NoIndex
    /\ lastReq = [kind |-> "none", ctx |-> Ctx(<< >>, FALSE), index |-> NoIndex,
                  items |-> {}, stale |-> {}, scanning |-> FALSE]

\* no document has been handed to _find_scripts_in_json
InitWalker ==
    /\ data = Str("")
    /\ results = << >>
    /\ walked = FALSE

InitFiles ==
    /\ fileMtime = [f \in Files |-> 1]
    /\ fileSrc = [f \in Files |-> "v1"]
    /\ symbol_cache = [f \in Files |-> << >>]
    /\ nextObj = 1
    /\ lastGet = [f \in Files |-> NoGet]
    /\ ret = [file |-> "f1", mtime |-> NoMtime,
              obj |-> ModuleSymbols(NoObject, "f1", "", << >>, << >>, << >>, "", 0, ""),
              extracted |-> FALSE, prev |-> NoGet]

InitScan ==
    /\ InitFiles
    /\ InitServerState
    /\ projJson \in {j \in [Projects -> ProjectJsons] :
                       \E t \in TitleSchemes :
                           \A p \in Projects :
                               j[p].state = "ok" => j[p].title = t[p]}
    /\ tree \in [Projects -> Trees]
    /\ root_path \in Projects
    /\ spc = "idle"
    /\ index = EmptyIndex(root_path)
    /\ visited = {}
    /\ cur = root_path
    /\ frames = << >>
    /\ parent_chain = << >>
    /\ returned = << >>
    /\ scans = 0
    /\ history = << >>
    /\ InitWalker

NextScan ==
    \/ ScanBegin
    \/ CollectDescend
    \/ CollectReturn
    \/ Merge
    \/ Stamp
    \/ ScanAgain

SpecScan == InitScan /\ [][NextScan]_vars

\* a SymbolCache and the script files it reads; no scanner runs
\* no scanner is running
InitProjectScanner ==
    /\ projJson = [p \in Projects |-> Absent]
    /\ tree = [p \in Projects |-> TreeEmpty]
    /\ root_path = 1
    /\ spc = "idle"
    /\ index = EmptyIndex(root_path)
    /\ visited = {}
    /\ cur = root_path
    /\ frames = << >>
    /\ parent_chain = << >>
    /\ returned = << >>
    /\ scans = 0
    /\ history = << >>

InitScanner == InitProjectScanner /\ InitWalker

InitCache ==
    /\ InitFiles
    /\ InitServerState
    /\ InitScanner
    /\ fileMtime \in [Files -> 0..MaxMtime]
    /\ fileSrc \in [Files -> Sources]

NextCache ==
    \/ \E f \in Files : Get(f)
    \/ \E f \in Files : Invalidate(f)
    \/ Clear
    \/ \E f \in Files, m \in 1..MaxMtime, src \in Sources : WriteFile(f, m, src)
    \/ \E f \in Files : RemoveFile(f)

SpecCache == InitCache /\ [][NextCache]_vars

\* the server after construction: the loaders initialised (api_loader is
\* None when loading the API database failed), an empty SymbolCache
InitServer ==
    /\ InitFiles
    /\ InitScanner
    /\ InitServerState
    /\ api_loader \in BOOLEAN

NextServer ==
    \/ DidOpen
    \/ \E found \in BOOLEAN : EnsureRun(found)
    \/ \E w \in Workers : EnsureFinally(w)
    \/ \E t \in Threads, marker \in BOOLEAN : SPCheck(t, marker)
    \/ \E t \in Threads, marker \in BOOLEAN : SPScanBegin(t, marker)
    \/ \E t \in Threads : SPMerge(t)
    \/ \E t \in Threads : SPStamp(t)
    \/ \E t \in Threads : SPRaise(t)
    \/ \E t \in Threads : SPAssign(t)
    \/ \E t \in Threads : SPClear(t)
    \/ \E t \in Threads : SPLog(t)
    \/ \E t \in Threads : SPExcept(t)
    \/ \E kind \in SaveKinds, f \in Files : DidSave(kind, f)
    \/ DidSaveEnd
    \/ \E ctx \in Contexts : Completion(ctx)

SpecServer == InitServer /\ [][NextServer]_vars

\* a step of the thread inside scan_project
ScanProjectStep(t) ==
    \/ \E marker \in BOOLEAN : SPCheck(t, marker)
    \/ \E marker \in BOOLEAN : SPScanBegin(t, marker)
    \/ SPMerge(t)
    \/ SPStamp(t)
    \/ SPRaise(t)
    \/ SPAssign(t)
    \/ SPClear(t)
    \/ SPLog(t)
    \/ SPExcept(t)

\* the server with its scheduling: a thread inside scan_project keeps
\* running (the executor thread, and the event loop thread inside did_save),
\* a handler that has called scan_project ends, and the event loop, whose
\* ready queue is first-in first-out, resumes the coroutine awaiting
\* run_in_executor once the future is done, however often other handlers
\* run in between
FairSpecServer ==
    /\ SpecServer
    /\ \A t \in Threads : WF_vars(ScanProjectStep(t))
    /\ WF_vars(DidSaveEnd)
    /\ \A w \in Workers : SF_vars(EnsureFinally(w))

\* an index as a scan may have built it, the script files on disk, an empty
\* SymbolCache
InitResolve ==
    /\ InitFiles
    /\ InitScanner
    /\ project_index = NoIndex
    /\ scan_in_progress = FALSE
    /\ api_loader = TRUE
    /\ sp = [t \in Threads |-> Off]
    /\ idxPhase = [i \in 1..MaxIndexes |-> "none"]
    /\ nextIdx = 1
    /\ pending = 0
    /\ entryEpoch = [f \in Files |-> 0]
    /\ pubCount = 0
    /\ latestPublished = NoIndex
    /\ lastReq = [kind |-> "none", ctx |-> Ctx(<< >>, FALSE), index |-> NoIndex,
                  items |-> {}, stale |-> {}, scanning |-> FALSE]
    /\ rIndex \in ResolveIndexes
    /\ rOut = NoResolution

NextResolve ==
    \/ \E ctx \in ResolveContexts : Complete(ctx)
    \/ \E word \in DefinitionWords : ResolveProject(word)
    \/ \E word \in DefinitionWords \cup {<< >>}, api \in BOOLEAN : Define(word, api)
    \/ \E word \in DefinitionWords : DefinitionRequest(word)

SpecResolve == InitResolve /\ [][NextResolve]_vars

\* a parsed document of any shape, not yet walked
InitWalk ==
    /\ InitFiles
    /\ InitServerState
    /\ InitProjectScanner
    /\ data \in Documents
    /\ results = << >>
    /\ walked = FALSE

NextWalk == FindScriptsInJson

SpecWalk == InitWalk /\ [][NextWalk]_vars

\* the server's fields when nothing has been opened or scanned
InitServerOff ==
    /\ project_index = NoIndex
    /\ scan_in_progress = FALSE
    /\ api_loader = TRUE
    /\ sp = [t \in Threads |-> Off]
    /\ idxPhase = [i \in 1..MaxIndexes |-> "none"]
    /\ nextIdx = 1
    /\ pending = 0
    /\ entryEpoch = [f \in Files |-> 0]
    /\ pubCount = 0
    /\ latestPublished = NoIndex
    /\ lastReq = [kind |-> "none", ctx |-> Ctx(<< >>, FALSE), index |-> NoIndex,
                  items |-> {}, stale |-> {}, scanning |-> FALSE]

\* an empty SymbolCache and no request answered yet
InitSymbolCache ==
    /\ InitScanner
    /\ InitServerOff
    /\ symbol_cache = [f \in Files |-> << >>]
    /\ nextObj = 1
    /\ lastGet = [f \in Files |-> NoGet]
    /\ ret = [file |-> "f1", mtime |-> NoMtime,
              obj |-> ModuleSymbols(NoObject, "f1", "", << >>, << >>, << >>, "", 0, ""),
              extracted |-> FALSE, prev |-> NoGet]
    /\ rOut = NoResolution

\* script files of every kind on disk (f1 possibly missing), extracted
\* directly and through the cache
InitExtract ==
    /\ InitSymbolCache
    /\ fileMtime \in {m \in [Files -> 0..1] : m["f2"] = 1}
    /\ fileSrc \in {t \in [Files -> SymbolSources] : t["f2"] \in {"v1", "nested"}}
    /\ rIndex = << >>

NextExtract ==
    \/ \E f \in Files : Extract(f)
    \/ \E f \in Files : Get(f)

SpecExtract == InitExtract /\ [][NextExtract]_vars

\* script files with symbols, without symbols, and ones that do not parse,
\* an index that names them, and hover and completion requests against it
InitSymbols ==
    /\ InitSymbolCache
    /\ fileMtime = [f \in Files |-> 1]
    /\ fileSrc \in {t \in [Files -> SymbolSources] :
                       /\ t["f1"] \in {"v1", "v2", "bad"}
                       /\ t["f2"] \in {"v1", "empty", "nested"}}
    /\ rIndex \in SymbolIndexes

NextSymbols ==
    \/ \E word \in HoverWords : Hover(word)
    \/ \E ctx \in SymbolContexts : Complete(ctx)

SpecSymbols == InitSymbols /\ [][NextSymbols]_vars

\* The same scanner over every parent graph, with two kinds of project tree
\* (the walk of the parent chain reads project.json files only).  scan() is
\* straight-line code run by one thread: it keeps taking steps.
InitChain == InitScan /\ tree \in [Projects -> {TreeEmpty, TreeLib}]

FairSpecChain == InitChain /\ [][NextScan]_vars /\ WF_vars(NextScan)

(***************************************************************************)
(* Claims about ProjectScanner.scan                                        *)
(***************************************************************************)
WithPath(scripts, mp) ==
    LET Test(loc) == loc.module_path = mp IN SelectSeq(scripts, Test)

ScanDone == spc = "done" /\ Len(returned) = 1

OwnScripts == ScanProjectDir(root_path)

\* indexes of the entries of parent_chain that define module path mp
Definers(mp) ==
    {i \in 1..Len(parent_chain) : mp \in ModulePaths(parent_chain[i].scripts)}

Max(S) == CHOOSE x \in S : \A y \in S : y <= x

\* C1 as stated: after a scan with ancestors, every module_path of the
\* child's own locations occurs exactly once in the merged index, on a
\* location of the child.
C1_ChildPathOnce ==
    (ScanDone /\ returned[1].parent_roots # << >>) =>
        \A mp \in ModulePaths(OwnScripts) :
            /\ Len(WithPath(returned[1].scripts, mp)) = 1
            /\ WithPath(returned[1].scripts, mp)[1].file_path[1] = root_path

\* C1 amended: after a scan with ancestors, the locations of the merged index
\* that carry a module_path of the child's own locations are exactly the
\* child's own locations for that path, in scan order: no ancestor location
\* with such a path is merged in.
C1_ChildOverridesAncestors ==
    (ScanDone /\ returned[1].parent_roots # << >>) =>
        \A mp \in ModulePaths(OwnScripts) :
            WithPath(returned[1].scripts, mp) = WithPath(OwnScripts, mp)

\* a finished scan in which another project, an ancestor, defines a module
\* path the child defines too
C1_Witness ==
    /\ ScanDone
    /\ \E i \in 1..Len(parent_chain) :
          /\ parent_chain[i].root # root_path
          /\ ModulePaths(parent_chain[i].scripts) \cap ModulePaths(OwnScripts) # {}

\* C2: a module_path that the child does not define and that two or more
\* ancestors of the chain define occurs exactly once in the merged index, on
\* the location of the closest of these ancestors (the last of them in
\* parent_chain, which is ordered deepest ancestor first).
C2_CloserAncestorWins ==
    ScanDone =>
        \A i \in 1..Len(parent_chain) :
            \A mp \in ModulePaths(parent_chain[i].scripts) :
                (mp \notin ModulePaths(OwnScripts) /\ Cardinality(Definers(mp)) >= 2) =>
                    /\ Len(WithPath(returned[1].scripts, mp)) = 1
                    /\ WithPath(returned[1].scripts, mp)[1].file_path[1]
                           = parent_chain[Max(Definers(mp))].root

ConsecutiveGets ==
    /\ ret.prev.id # NoObject
    /\ ~ret.prev.dropped
    /\ ret.prev.mtime # NoMtime
    /\ ret.mtime # NoMtime

\* C4: of two consecutive get(f) calls (no invalidate or clear between
\* them), the second returns the very object the first returned, without
\* extracting, when f's modification time is the same at both calls, and a
\* different, newly extracted object holding the file's current symbols when
\* the modification time differs.
C4_CacheCorrect ==
    ConsecutiveGets =>
        IF ret.mtime = ret.prev.mtime
        THEN ret.obj.id = ret.prev.id /\ ~ret.extracted
        ELSE /\ ret.obj.id # ret.prev.id
             /\ ret.extracted
             /\ ret.obj.file_mtime = ret.mtime

\* a get() that returns the object of the get() before it, which itself was
\* the first get() after the file's modification time had changed and
\* returned a new object
C4_Witness ==
    /\ ConsecutiveGets
    /\ ret.mtime = ret.prev.mtime
    /\ ret.obj.id = ret.prev.id
    /\ ~ret.extracted
    /\ ret.prev.refreshed
    /\ ret.obj.id > 1

(***************************************************************************)
(* Claims about the language server                                        *)
(***************************************************************************)
\* the thread is inside scan_project
InScanProject(t) == sp[t].pc \notin {"off", "finished"}

\* C5: at any time at most one scan_project call is executing in the server
\* process, so a structural save or a document-open that arrives while one
\* is running starts no second one.
C5_OneScanInFlight ==
    Cardinality({t \in Threads : InScanProject(t)}) <= 1

\* C6: no completion request runs with an index together with Symbol Cache
\* entries that were populated before that index was published.
C6_NoStaleCacheWithNewIndex ==
    (lastReq.kind = "completion" /\ lastReq.index # NoIndex) => lastReq.stale = {}

\* C7: the index in server.project_index is one whose scanner.scan() has
\* returned, that is, with the ancestors merged and the timestamp set (or
\* the empty index scan() returns for a directory without project.json), and
\* no thread is still building it; the same holds for the index a request
\* handler was given.
C7_PublishedIndexComplete ==
    /\ project_index # NoIndex =>
          /\ idxPhase[project_index] \in {"stamped", "empty"}
          /\ \A t \in Threads :
                sp[t].idx = project_index => sp[t].pc \notin {"scan", "merging", "stamping"}
    /\ lastReq.index # NoIndex => idxPhase[lastReq.index] \in {"stamped", "empty"}

\* a request was answered from an index that a scan merged and stamped
C7_Witness ==
    /\ lastReq.kind = "completion"
    /\ lastReq.index # NoIndex
    /\ lastReq.index = project_index
    /\ idxPhase[project_index] = "stamped"
    /\ Item("general", "project") \in lastReq.items

\* C8: once a scan has completed and its index was published, whenever a
\* request can be handled server.project_index is the index of the latest
\* completed scan, whatever opens, saves and scans (failing ones included)
\* have happened since.
C8_LatestIndexStays ==
    (Idle /\ pubCount > 0) => project_index = latestPublished

\* the items the static registry gives for a context
RegistryItemsFor(ctx) ==
    IF ctx = Ctx(<< >>, FALSE) THEN {Item("system", "static")}
    ELSE IF ctx = Ctx(<<"system">>, TRUE) THEN {Item("tag", "registry")}
    ELSE IF ctx = Ctx(<<"system", "tag">>, TRUE) THEN {Item("readBlocking", "registry")}
    ELSE {}

\* C9: a completion request handled while server.project_index is None,
\* before or during the first scan, is answered in the handler's own step:
\* its items hold no project-scoped candidate, and with the API registry
\* loaded they hold the system.* candidates of its context.
C9_NoIndexNoProjectItems ==
    (lastReq.kind = "completion" /\ lastReq.index = NoIndex) =>
        /\ \A it \in lastReq.items : it.origin # "project"
        /\ api_loader => RegistryItemsFor(lastReq.ctx) \subseteq lastReq.items

\* a request for system.tag. answered from the registry while the first scan
\* is running on the executor thread
C9_Witness ==
    /\ lastReq.kind = "completion"
    /\ lastReq.index = NoIndex
    /\ lastReq.scanning
    /\ lastReq.ctx = Ctx(<<"system", "tag">>, TRUE)
    /\ lastReq.items = {Item("readBlocking", "registry")}
    /\ \E w \in Workers : sp[w].pc \in {"scan", "merging", "stamping"}
    /\ project_index = NoIndex

\* C10: when did_save has handled the save of a structural document and goes
\* on to the diagnostics, its scan_project call has built a new index and
\* that index is server.project_index.
C10_StructuralSaveRescans ==
    (sp[Main].pc = "finished" /\ sp[Main].kind = "structural") =>
        /\ sp[Main].idx # NoIndex
        /\ project_index = sp[Main].idx

\* C11: the did_save of a .py file f removes the Symbol Cache entry of f and
\* nothing else: every other entry, server.project_index and the
\* _scan_in_progress flag stay as they were, no index is created and no
\* thread enters scan_project.
C11_PySaveInvalidatesOnlyThatFile ==
    [][(Idle /\ sp'[Main].kind \in Files) =>
          /\ symbol_cache' = [symbol_cache EXCEPT ![sp'[Main].kind] = << >>]
          /\ project_index' = project_index
          /\ scan_in_progress' = scan_in_progress
          /\ nextIdx' = nextIdx
          /\ sp'[Main].pc = "finished"
          /\ \A w \in Workers : sp'[w] = sp[w]]_vars

\* f1.py was saved while both files had been read through the cache under
\* the current index: the entry of f1 is gone, that of f2 is still there
C11_Witness ==
    /\ sp[Main].pc = "finished"
    /\ sp[Main].kind = "f1"
    /\ project_index # NoIndex
    /\ entryEpoch["f1"] = pubCount
    /\ symbol_cache["f1"] = << >>
    /\ symbol_cache["f2"] # << >>
    /\ entryEpoch["f2"] = pubCount

(***************************************************************************)
(* Further claims about the scanner                                        *)
(***************************************************************************)
\* C12: the index scan() returns for a root without project.json has no
\* scripts, no ancestor roots and no last_updated, whatever the directory
\* holds; for a root with project.json last_updated is set, and the scripts
\* are none when the project has no script files and no ancestors.
C12_UnmarkedRootEmptyIndex ==
    ScanDone =>
        /\ projJson[root_path].state = "absent" =>
              /\ returned[1].scripts = << >>
              /\ returned[1].parent_roots = << >>
              /\ returned[1].last_updated = NoStamp
        /\ projJson[root_path].state # "absent" =>
              /\ returned[1].last_updated # NoStamp
              /\ (tree[root_path] = TreeEmpty /\ returned[1].parent_roots = << >>)
                    => returned[1].scripts = << >>

\* a directory with script files but no project.json was scanned
C12_Witness ==
    /\ ScanDone
    /\ projJson[root_path].state = "absent"
    /\ tree[root_path] = TreeMixed
    /\ returned[1] = EmptyIndex(root_path)

\* C13: in the index a scan returns, no two locations with script_key
\* "__file__" have the same module_path.
C13_StandaloneModulePathsUnique ==
    ScanDone =>
        \A i, j \in 1..Len(returned[1].scripts) :
            (/\ i # j
             /\ returned[1].scripts[i].script_key = "__file__"
             /\ returned[1].scripts[j].script_key = "__file__")
                => returned[1].scripts[i].module_path # returned[1].scripts[j].module_path

\* the standalone-module locations of the returned index
Standalone ==
    {i \in 1..Len(returned[1].scripts) : returned[1].scripts[i].script_key = "__file__"}

\* the directory, relative to script-python/, and the name of a location's file
DirOf(loc) == loc.file_path[3]
NameOf(loc) == loc.file_path[4]

\* C14: the module_path of a standalone script is the dot-join of the
\* components of its directory relative to script-python/, hyphenated
\* components split at the hyphens (a-b/code.py and a/b/code.py give a.b,
\* c/code.py and c/util.py give c); two files of one directory get the same
\* path whatever their names; a file directly in script-python/ gets its file
\* name without the extension.
C14_ModulePathFromDirectory ==
    ScanDone =>
        /\ \A i \in Standalone :
              LET loc == returned[1].scripts[i]
              IN /\ DirOf(loc) = DirAhB => loc.module_path = <<"a", "b">>
                 /\ DirOf(loc) = DirAB => loc.module_path = <<"a", "b">>
                 /\ DirOf(loc) = DirC => loc.module_path = <<"c">>
                 /\ (DirOf(loc) = DirRoot /\ NameOf(loc) = "top.py") => loc.module_path = <<"top">>
        /\ \A i, j \in Standalone :
              (/\ DirOf(returned[1].scripts[i]) = DirOf(returned[1].scripts[j])
               /\ DirOf(returned[1].scripts[i]) # DirRoot)
                 => returned[1].scripts[i].module_path = returned[1].scripts[j].module_path

\* one index with a script from a hyphenated directory and a script that
\* lies directly in script-python/
C14_Witness ==
    /\ ScanDone
    /\ \E i, j \in Standalone :
          /\ DirOf(returned[1].scripts[i]) = DirAhB
          /\ returned[1].scripts[i].module_path = <<"a", "b">>
          /\ DirOf(returned[1].scripts[j]) = DirRoot
          /\ returned[1].scripts[j].module_path = <<"top">>

Range(seq) == {seq[i] : i \in 1..Len(seq)}

\* C15: two scan() calls on the same project tree return indexes with the
\* same set of ScriptLocations and the same ancestor roots; only
\* last_updated may differ.
C15_RescanSameContents ==
    Len(history) >= 2 =>
        /\ Range(history[1].scripts) = Range(history[2].scripts)
        /\ history[1].parent_roots = history[2].parent_roots
        /\ history[1].root_path = history[2].root_path

\* a project with scripts of its own and inherited ones was scanned twice
C15_Witness ==
    /\ Len(history) = 2
    /\ history[1].parent_roots # << >>
    /\ \E i, j \in 1..Len(history[2].scripts) :
          /\ history[2].scripts[i].file_path[1] = root_path
          /\ history[2].scripts[j].file_path[1] # root_path
    /\ history[1].last_updated # history[2].last_updated

(***************************************************************************)
(* Claims about completion and definition resolution                       *)
(***************************************************************************)
\* mp is prefix + "." + more: a strict dot-extension of prefix
DotExtends(mp, prefix) == Len(mp) > Len(prefix) /\ SubSeq(mp, 1, Len(prefix)) = prefix

\* prefix is a leaf module of the index: it is the module_path of a
\* standalone location and no location's module_path dot-extends it
IsLeafModule(scripts, prefix) ==
    /\ \E i \in 1..Len(scripts) :
          scripts[i].module_path = prefix /\ scripts[i].script_key = "__file__"
    /\ \A i \in 1..Len(scripts) : ~DotExtends(scripts[i].module_path, prefix)

\* the next segments, after prefix, of the locations under prefix + "."
NextSegments(scripts, prefix) ==
    {scripts[i].module_path[Len(prefix) + 1] :
        i \in {j \in 1..Len(scripts) : DotExtends(scripts[j].module_path, prefix)}}

\* C16: for a prefix that is not a leaf module, the candidates of package
\* completion are exactly the next path segments of the locations whose
\* module_path starts with prefix + ".", each once, that start with the
\* partial name (compared case-insensitively).
C16_PackageCandidatesExact ==
    (rOut.kind = "complete" /\ ~IsLeafModule(rIndex, CtxPrefix(rOut.ctx))) =>
        rOut.items =
            {Item(seg, "project") :
                seg \in {x \in NextSegments(rIndex, CtxPrefix(rOut.ctx)) :
                            \/ CtxPartial(rOut.ctx) = ""
                            \/ StrStartsWithNoCase(x, CtxPartial(rOut.ctx))}}

\* the names a source text declares at its top level that do not start with
\* an underscore
PublicTopLevelNames(src) ==
    {n.name : n \in {x \in Elements(SourceText(src).body) :
                        /\ x.node \in {"FunctionDef", "ClassDef", "Assign", "AnnAssign"}
                        /\ ~StrStartsWith(x.name, "_")}}

\* C17: when the prefix is a leaf module of the index, completion after
\* "prefix." offers the top-level symbols of that module's file, read through
\* the Symbol Cache, whatever sibling modules with longer names there are.
C17_LeafModuleOffersSymbols ==
    (/\ rOut.kind = "complete"
     /\ rOut.ctx.dot
     /\ IsLeafModule(rIndex, CtxPrefix(rOut.ctx))) =>
        \E i \in 1..Len(rIndex) :
            /\ rIndex[i].module_path = CtxPrefix(rOut.ctx)
            /\ rIndex[i].script_key = "__file__"
            /\ rOut.items = {Item(n, "project") :
                                n \in PublicTopLevelNames(fileSrc[rIndex[i].file_path])}
            /\ symbol_cache[rIndex[i].file_path] # << >>

\* the locations of the index whose module_path starts with the word
PrefixMatches(word) == SearchModulePaths(rIndex, word)

\* the word matches no module_path exactly and is a prefix of several
AmbiguousPrefix(word) ==
    /\ FindByModulePath(rIndex, word) = << >>
    /\ Len(PrefixMatches(word)) > 1

\* the lengths of the shorter dot-prefixes of the word, of two segments or
\* more, that are exactly a module_path of the index
ExactShorter(word) ==
    {k \in 2..(Len(word) - 1) : FindByModulePath(rIndex, SubSeq(word, 1, k)) # << >>}

\* C18 as stated: a dotted reference that matches no module_path exactly and
\* is a prefix of more than one location's module_path resolves to nothing.
C18_AmbiguousPrefixResolvesToNothing ==
    (rOut.kind = "project_script" /\ AmbiguousPrefix(rOut.word)) => rOut.loc = << >>

\* C18: a dotted reference that matches no module_path exactly and is a
\* prefix of more than one location's module_path never resolves to one of
\* those locations; it resolves to the first location whose module_path is
\* the longest shorter dot-prefix of the reference (of two segments or more)
\* that is exactly a module_path, and to nothing when there is none.
C18_AmbiguousPrefixNeverGuessed ==
    (rOut.kind = "project_script" /\ AmbiguousPrefix(rOut.word)) =>
        IF ExactShorter(rOut.word) = {}
        THEN rOut.loc = << >>
        ELSE rOut.loc =
                << ScriptLocationToLsp(
                       FindByModulePath(rIndex,
                           SubSeq(rOut.word, 1, Max(ExactShorter(rOut.word))))[1]) >>

\* project.library is a prefix of two modules and of nothing else: resolved
\* to nothing
C18_Witness ==
    /\ rOut.kind = "project_script"
    /\ rOut.word = <<"project", "library">>
    /\ AmbiguousPrefix(rOut.word)
    /\ Len(rIndex) = 2
    /\ rOut.loc = << >>

\* C19: when the reference is the full name of a registry function and also
\* resolves in the project index, get_definition (with the registry loaded)
\* returns the registry's location, the function's entry in the API database,
\* and the project resolver has not answered.
C19_RegistryBeforeProject ==
    (/\ rOut.kind = "definition"
     /\ rOut.api
     /\ rOut.word \in RegistryFunctions
     /\ ResolveProjectScript(rOut.word, rIndex) # << >>) =>
        /\ rOut.via = "registry"
        /\ rOut.loc = << LspLocation("system_tag.json", 0) >>

\* system.tag.readBlocking is a registry function and a module_path of the
\* index
C19_Witness ==
    /\ rOut.kind = "definition"
    /\ rOut.api
    /\ rOut.word = <<"system", "tag", "readBlocking">>
    /\ FindByModulePath(rIndex, rOut.word) # << >>
    /\ rOut.via = "registry"
    /\ rOut.loc = << LspLocation("system_tag.json", 0) >>

\* C20: the server's definition handler, asked for a dotted reference that
\* is exactly a module_path of the index (and no registry function), returns
\* the location of that script: its file, at line line_number - 1.
C20_HandlerResolvesExactModulePath ==
    (/\ rOut.kind = "handler"
     /\ Len(rOut.word) >= 2
     /\ rOut.word \notin RegistryFunctions
     /\ FindByModulePath(rIndex, rOut.word) # << >>) =>
        rOut.loc = << ScriptLocationToLsp(FindByModulePath(rIndex, rOut.word)[1]) >>

\* project.json of p names a parent, and no directory beside p has a
\* project.json with that title or has that name
ParentNotLocated(p) ==
    /\ projJson[p].state = "ok"
    /\ projJson[p].parent # NoParent
    /\ \A c \in Projects \ {p} :
          /\ ~(projJson[c].state = "ok" /\ projJson[c].title = projJson[p].parent)
          /\ c # projJson[p].parent

C29_AncestorRootsDistinctNotSelf ==
    ScanDone =>
        /\ \A i, j \in 1..Len(returned[1].parent_roots) :
              i # j => returned[1].parent_roots[i] # returned[1].parent_roots[j]
        /\ \A i \in 1..Len(returned[1].parent_roots) :
              returned[1].parent_roots[i] # root_path

\* C30: every location of an ancestor whose module_path occurs neither in
\* the child nor in another ancestor of the chain is in the merged index,
\* also when several locations of that ancestor share the module_path.
C30_AncestorLocationsKept ==
    ScanDone =>
        \A i \in 1..Len(parent_chain) :
            \A k \in 1..Len(parent_chain[i].scripts) :
                LET loc == parent_chain[i].scripts[k]
                IN (/\ loc.module_path \notin ModulePaths(OwnScripts)
                    /\ Definers(loc.module_path) = {i}) =>
                       \E n \in 1..Len(returned[1].scripts) : returned[1].scripts[n] = loc

\* the value is a script: a string that is not blank, or an object with such
\* a string under its script key
IsScriptText(node) == IsStr(node) /\ Strip(node.str) # ""
IsScriptValue(node) ==
    \/ IsScriptText(node)
    \/ IsDict(node) /\ IsScriptText(DictGet(node, "script"))

\* the occurrences of a script-bearing key with a script as its value,
\* anywhere in the tree, in document order, each with the name of the
\* nearest enclosing named object; the script member of a script object
\* belongs to the occurrence of that object
RECURSIVE ScriptOccurrences(_, _, _)
ScriptOccurrences(node, context_name, skip) ==
    IF IsDict(node)
    THEN LET current_context ==
                 IF NodeName(node) # "" THEN NodeName(node) ELSE context_name
             Member(e) ==
                 IF e.key \in skip THEN << >>
                 ELSE IF e.key \in SCRIPT_KEYS /\ IsScriptText(e.value)
                 THEN << Found(e.key, current_context) >>
                 ELSE IF e.key \in SCRIPT_KEYS /\ IsScriptValue(e.value)
                 THEN << Found(e.key, current_context) >>
                          \o ScriptOccurrences(e.value, current_context, {"script"})
                 ELSE ScriptOccurrences(e.value, current_context, {})
             Upto[i \in 0..Len(node.items)] ==
                 IF i = 0 THEN << >> ELSE Upto[i - 1] \o Member(node.items[i])
         IN Upto[Len(node.items)]
    ELSE IF node.type = "list"
    THEN LET Upto[i \in 0..Len(node.items)] ==
                 IF i = 0 THEN << >>
                 ELSE Upto[i - 1] \o ScriptOccurrences(node.items[i].value, context_name, {})
         IN Upto[Len(node.items)]
    ELSE << >>

\* C24: the walk of a resource document reports every occurrence of a
\* script-bearing key whose value is a non-blank string or an object with a
\* non-blank string under its script key, wherever it is nested, once, with
\* that key and the name of the nearest enclosing named object, and reports
\* nothing else.
C24_EveryScriptOccurrenceFound ==
    walked => results = ScriptOccurrences(data, "", {})

(***************************************************************************)
(* Claims about the symbols of a module                                    *)
(***************************************************************************)
\* the file cannot be read or its text cannot be parsed
ExtractionFails(f) ==
    \/ fileMtime[f] = NoMtime
    \/ ~SourceText(fileSrc[f]).decodes
    \/ SourceText(fileSrc[f]).parse # "ok"

\* what the claim asks of the outcome of extracting file f
FailureAsValue(f, obj) ==
    /\ obj.raised = ""
    /\ obj.parse_error # "" <=> ExtractionFails(f)
    /\ obj.parse_error # "" =>
          obj.functions = << >> /\ obj.classes = << >> /\ obj.variables = << >>

\* C21: every call of extract_symbols and of SymbolCache.get returns a
\* ModuleSymbols object and raises nothing; the object's parse_error is set
\* exactly when the file is missing or unreadable or its source does not
\* parse, and then its functions, classes and variables are empty.
C21_FailureReturnedAsValue ==
    /\ rOut.kind = "extract" => FailureAsValue(rOut.file, rOut.obj[1])
    /\ ret.obj.id # NoObject => FailureAsValue(ret.file, ret.obj)

\* the lengths of the proper prefixes of the word that the index knows as a
\* standalone module whose file gives symbols
HoverModules(word) ==
    {i \in 1..(Len(word) - 1) :
        LET loc == FindByModulePath(rIndex, SubSeq(word, 1, i))
        IN /\ loc # << >>
           /\ loc[1].script_key = "__file__"
           /\ ExtractSymbols(loc[1].file_path, NoObject).parse_error = ""}

\* what the symbols of a module give for the segments after the module's
\* name: the function named by the first of them; failing that the class
\* of that name, or its method when a second segment names one; failing that
\* the variable
SymbolHover(obj, module, remaining) ==
    LET name == remaining[1]
        IsFunction == \E i \in 1..Len(obj.functions) : obj.functions[i] = name
        IsClass == \E i \in 1..Len(obj.classes) : obj.classes[i].name = name
        IsVariable == \E i \in 1..Len(obj.variables) : obj.variables[i] = name
        first == CHOOSE i \in 1..Len(obj.classes) :
                    /\ obj.classes[i].name = name
                    /\ \A j \in 1..(i - 1) : obj.classes[j].name # name
        IsMethod == /\ Len(remaining) > 1
                    /\ \E i \in 1..Len(obj.classes[first].methods) :
                          obj.classes[first].methods[i] = remaining[2]
    IN CASE IsFunction -> HoverOf("function", module, name, "")
         [] ~IsFunction /\ IsClass /\ IsMethod -> HoverOf("method", module, name, remaining[2])
         [] ~IsFunction /\ IsClass /\ ~IsMethod -> HoverOf("class", module, name, "")
         [] ~IsFunction /\ ~IsClass /\ IsVariable -> HoverOf("variable", module, name, "")
         [] OTHER -> NoHover

\* what the module named by the first i segments of the word gives for the
\* segments after them
HoverAt(word, i) ==
    SymbolHover(ExtractSymbols(FindByModulePath(rIndex, SubSeq(word, 1, i))[1].file_path,
                               NoObject),
                SubSeq(word, 1, i), SubSeq(word, i + 1, Len(word)))

\* C23 as stated: hover on a dotted name resolves against the longest prefix
\* that is a standalone module with parseable symbols: it returns what that
\* module gives for the next segments (functions, then classes, then
\* variables), and nothing when there is no such prefix.
C23_HoverLongestModule ==
    (rOut.kind = "hover" /\ rOut.raised = "") =>
        rOut.hover = IF HoverModules(rOut.word) = {} THEN NoHover
                     ELSE HoverAt(rOut.word, Max(HoverModules(rOut.word)))

\* the prefixes among HoverModules in which the next segment names a
\* function, a class or a variable
HoverMatches(word) == {i \in HoverModules(word) : HoverAt(word, i) # NoHover}

\* C23 amended: hover on a dotted name resolves against the longest prefix
\* that is a standalone module with parseable symbols in which the next
\* segment names a function, a class or a variable, a module without such a
\* symbol being passed over for a shorter prefix; there the function wins
\* over the class and the class over the variable, a class gives its method
\* when one further segment names one and itself otherwise; with no such
\* prefix there is no hover.
C23_HoverLongestMatchingModule ==
    (rOut.kind = "hover" /\ rOut.raised = "") =>
        rOut.hover = IF HoverMatches(rOut.word) = {} THEN NoHover
                     ELSE HoverAt(rOut.word, Max(HoverMatches(rOut.word)))

\* hover on project.library.utils.text.process where the module
\* project.library.utils.text has no symbol process and the module
\* project.library.utils has a class text with a method process, next to a
\* variable text
C23_Witness ==
    /\ rOut.kind = "hover"
    /\ rOut.word = Utils \o <<"text", "process">>
    /\ HoverModules(rOut.word) = {3, 4}
    /\ HoverMatches(rOut.word) = {3}
    /\ rOut.hover = HoverOf("method", Utils, "text", "process")
    /\ "text" \in Elements(symbol_cache["f1"][1].variables)

\* the latest request was a completion inside the leaf module of file f1:
\* "project.library.utils." or "project.library.utils.<partial>"
LeafRequest ==
    /\ rOut.kind = "complete"
    /\ rOut.raised = ""
    /\ rIndex = << Loc(Utils, "f1", "__file__", 1) >>
    /\ CtxPrefix(rOut.ctx) = Utils

\* the latest request was a completion of the members of a class of file
\* f1: "project.library.utils.<Class>." or "...<Class>.<partial>"
MemberRequest ==
    /\ rOut.kind = "complete"
    /\ rOut.raised = ""
    /\ FindByModulePath(rIndex, Utils) = << Loc(Utils, "f1", "__file__", 1) >>
    /\ Len(CtxPrefix(rOut.ctx)) = Len(Utils) + 1
    /\ SubSeq(CtxPrefix(rOut.ctx), 1, Len(Utils)) = Utils

\* the methods the class of the member request defines (those of the first
\* class of that name), none when file f1 has no such class
RequestedMethods ==
    LET body == SourceText(fileSrc["f1"]).body
        name == CtxPrefix(rOut.ctx)[Len(Utils) + 1]
        hits == {i \in 1..Len(body) : body[i].node = "ClassDef" /\ body[i].name = name}
    IN IF fileMtime["f1"] = NoMtime \/ hits = {} THEN {}
       ELSE Elements(body[Min(hits)].methods)

\* C27 as stated: leaf-module candidates hold no name that starts with an
\* underscore; class-member candidates hold no dunder method other than
\* __init__, and hold __init__ whenever the class defines it.
C27_PrivateNamesHidden ==
    /\ LeafRequest => \A it \in rOut.items : ~StrStartsWith(it.label, "_")
    /\ MemberRequest =>
          /\ \A it \in rOut.items :
                StrStartsWith(it.label, "__") /\ it.label \in RequestedMethods
                    => it.label = "__init__"
          /\ "__init__" \in RequestedMethods => Item("__init__", "member") \in rOut.items

\* C27 amended: leaf-module candidates hold no name that starts with an
\* underscore; class-member candidates hold no dunder method other than
\* __init__, and hold __init__ whenever the class defines it and the partial
\* name typed after the class is empty or a prefix of __init__ (letter case
\* ignored), the same filter every other candidate passes.
C27_PrivateNamesHiddenInitFiltered ==
    /\ LeafRequest => \A it \in rOut.items : ~StrStartsWith(it.label, "_")
    /\ MemberRequest =>
          /\ \A it \in rOut.items :
                StrStartsWith(it.label, "__") /\ it.label \in RequestedMethods
                    => it.label = "__init__"
          /\ ("__init__" \in RequestedMethods
                 /\ (CtxPartial(rOut.ctx) = ""
                        \/ IsSeqPrefix(Lower(Chars(CtxPartial(rOut.ctx))),
                                       Lower(Chars("__init__")))))
                => Item("__init__", "member") \in rOut.items

\* both cases have happened on the text with _helper, _Impl, _INTERNAL and a
\* class Handler with __init__, process and __repr__: "...utils.Handler."
\* offers __init__, process and MAX, and earlier gets of the file cached it
C27_Witness ==
    /\ MemberRequest
    /\ fileSrc["f1"] = "v1"
    /\ rOut.ctx = Ctx(Utils \o <<"Handler">>, TRUE)
    /\ RequestedMethods = {"__init__", "process", "__repr__"}
    /\ rOut.items = {Item("__init__", "member"), Item("process", "member"),
                     Item("MAX", "member")}

(***************************************************************************)
(* Further claims about SymbolCache                                        *)
(***************************************************************************)
\* the step is a get(f) made while the modification time of f cannot be read
GetUnreadable(f) == Get(f) /\ fileMtime[f] = NoMtime

\* C25: a get(f) made while f's modification time cannot be read returns a
\* newly extracted object that carries a parse_error, and leaves the cache
\* as it was: nothing is stored and no entry changes, the earlier entry of
\* f included
C25_UnreadableMtimeBypassesCache ==
    [][\A f \in Files :
          GetUnreadable(f) =>
              /\ symbol_cache' = symbol_cache
              /\ ret'.extracted
              /\ ret'.obj.id = nextObj
              /\ \A g \in Files :
                    symbol_cache[g] # << >> => symbol_cache[g][1].id # ret'.obj.id
              /\ ret'.obj.parse_error # ""
              /\ ret'.obj.raised = ""]_vars

\* the latest get() was made while the file could not be read and returned a
\* fresh failure, and the entry stored for that file by an earlier get() is
\* still in the cache
C25_Witness ==
    /\ ret.mtime = NoMtime
    /\ fileMtime[ret.file] = NoMtime
    /\ ret.extracted
    /\ ret.obj.parse_error # ""
    /\ symbol_cache[ret.file] # << >>
    /\ symbol_cache[ret.file][1].id # ret.obj.id
    /\ symbol_cache[ret.file][1].parse_error = ""

\* C26: the first get(f) after invalidate(f) or clear() extracts and returns
\* an object that is not the one returned before, also when f's modification
\* time is what it was at the get() before; invalidate(f) empties the entry
\* of f, leaves every other entry alone, and changes nothing when f has no
\* entry
C26_InvalidateAndClearForceReextract ==
    /\ [](ret.prev.dropped =>
             /\ ret.extracted
             /\ ret.obj.id > ret.prev.id
             /\ ret.obj.file_mtime = IF ret.mtime = NoMtime THEN 0 ELSE ret.mtime)
    /\ [][\A f \in Files :
             Invalidate(f) =>
                 /\ symbol_cache'[f] = << >>
                 /\ \A g \in Files \ {f} : symbol_cache'[g] = symbol_cache[g]
                 /\ symbol_cache[f] = << >> => symbol_cache' = symbol_cache]_vars

\* a get(f) that followed invalidate(f) or clear() at the modification time
\* of the get() before them, returning another object than that one, while
\* the other file still has its entry
C26_Witness ==
    /\ ret.prev.dropped
    /\ ret.prev.id # NoObject
    /\ ret.mtime # NoMtime
    /\ ret.prev.mtime = ret.mtime
    /\ ret.extracted
    /\ ret.obj.id # ret.prev.id
    /\ \E g \in Files \ {ret.file} : symbol_cache[g] # << >>

(***************************************************************************)
(* Further claims about the language server                                *)
(***************************************************************************)
\* the scan_project call that ensure_project_index_async handed to the
\* executor has returned and the coroutine has not resumed yet
BackgroundScanEnded(w) == sp[w].pc = "finished" /\ sp[w].kind = "open"

\* C28: once the scan_project call of a background scan has ended, with an
\* index assigned, without a project, or through its exception handler,
\* _scan_in_progress is eventually False and the executor is free again
C28_ScanFlagEventuallyReset ==
    \A w \in Workers :
        BackgroundScanEnded(w) ~> (~scan_in_progress /\ sp[w] = Off)

\* a second background scan has been started after the first one built and
\* published an index and a scan called by did_save reset project_index
C28_Witness ==
    /\ scan_in_progress
    /\ \E w \in Workers : sp[w].pc = "start" /\ sp[w].kind = "open"
    /\ pubCount >= 1
    /\ project_index = NoIndex

====
